---- MODULE Spec2Model ----
(***************************************************************************)
(* paperless-cli: the API client (package api) and the document command    *)
(* handlers (package cmd) that resolve name-or-ID tokens, reconcile a      *)
(* document's tags, and upload or delete documents in batches.             *)
(*                                                                         *)
(* Text (names, tokens, command-line arguments) is a sequence of           *)
(* one-character strings, so that parsing and case folding are computed.   *)
(***************************************************************************)
EXTENDS Integers, Sequences, FiniteSets, TLC

VARIABLES
    cmd,       \* the invocation: command name, arguments and flags
    pc,        \* position of the command handler
    doc,       \* runDocsEdit: the document returned by GetDocument
    updates,   \* runDocsEdit: the map sent as the PATCH payload
    tags,      \* runDocsEdit: the map[int]bool working set of tag IDs
    idx,       \* index of the loop in progress (1-based)
    ids,       \* resolved IDs: upload's correspondentID/docTypeID/tagIDs, delete's ids
    call,      \* the Client operation in progress
    ret,       \* what the last Client operation returned
    inflight,  \* HTTP requests handed to httpClient.Do and not yet answered
    reqs,      \* every HTTP request sent so far, in order
    resps,     \* what came back for each of them, in order
    server,    \* the remote service: name tables, documents, tasks
    out,       \* lines written to standard output, in order
    err,       \* the error the handler returned
    hist,      \* one entry per token resolved: how it was resolved
    disk,      \* files written by os.WriteFile, in order
    client,    \* the *api.Client getClient returned: baseURL and token
    config     \* the file ~/.config/paperless-cli/config.yaml

vars == <<cmd, pc, doc, updates, tags, idx, ids, call, ret, inflight, reqs,
          resps, server, out, err, hist, disk, client, config>>

-----------------------------------------------------------------------------
(* Bounds of the model *)

\* most tokens given to --add-tag and --remove-tag together, and to --tag
MaxTokens == 2
\* most positional arguments of a batch upload or delete
MaxBatch == 3
\* most changes another client makes to a document while a command runs
MaxForeign == 1

\* config set-url and set-token run one after another
MaxSets == 3

(* Program constants *)

\* ?page_size=1000 of the auxiliary List requests
PageSize == 1000

-----------------------------------------------------------------------------
(* Text *)

Digits == <<"0", "1", "2", "3", "4", "5", "6", "7", "8", "9">>

IsDigit(c) == \E d \in 1..10 : Digits[d] = c

DigitVal(c) == (CHOOSE d \in 1..10 : Digits[d] = c) - 1

RECURSIVE ParseDigits(_, _)
ParseDigits(s, acc) ==
    IF s = <<>> THEN acc
    ELSE ParseDigits(Tail(s), acc * 10 + DigitVal(Head(s)))

\* a parser that takes no number written with a leading zero or a sign
AtoiCanonical(s) ==
    IF s = <<>> \/ (\E i \in 1..Len(s) : ~IsDigit(s[i])) \/ (Len(s) > 1 /\ s[1] = "0")
    THEN [ok |-> FALSE, val |-> 0]
    ELSE [ok |-> TRUE, val |-> ParseDigits(s, 0)]

\* strconv.Atoi: an optional sign, then one or more decimal digits.
\* (The tokens of the model are far too short to overflow an int.)
Atoi(s) ==
    LET signed == s # <<>> /\ Head(s) \in {"+", "-"}
        ds     == IF signed THEN Tail(s) ELSE s
    IN  IF ds = <<>> \/ \E i \in 1..Len(ds) : ~IsDigit(ds[i])
        THEN [ok |-> FALSE, val |-> 0]
        ELSE [ok |-> TRUE,
              val |-> IF signed /\ Head(s) = "-"
                      THEN 0 - ParseDigits(ds, 0) ELSE ParseDigits(ds, 0)]

UpperCase == <<"A", "B", "X">>
LowerCase == <<"a", "b", "x">>

\* simple case folding of one character
FoldChar(c) ==
    IF \E k \in 1..Len(UpperCase) : UpperCase[k] = c
    THEN LowerCase[CHOOSE k \in 1..Len(UpperCase) : UpperCase[k] = c]
    ELSE c

\* strings.EqualFold
EqualFold(s, t) ==
    /\ Len(s) = Len(t)
    /\ \A i \in 1..Len(s) : FoldChar(s[i]) = FoldChar(t[i])

-----------------------------------------------------------------------------
(* Values *)

Nil == [t |-> "nil", n |-> 0, a |-> <<>>, s |-> ""]

\* Go values stored in map[string]interface{}
GoInt(n)      == [t |-> "int", n |-> n, a |-> <<>>, s |-> ""]
GoString(s)   == [t |-> "string", n |-> 0, a |-> <<>>, s |-> s]
GoIntSlice(a) == [t |-> "[]int", n |-> 0, a |-> a, s |-> ""]
GoNilSlice    == [t |-> "[]int(nil)", n |-> 0, a |-> <<>>, s |-> ""]

\* JSON values
JNull     == [t |-> "null", n |-> 0, a |-> <<>>, s |-> ""]
JNumber(n) == [t |-> "number", n |-> n, a |-> <<>>, s |-> ""]
JString(s) == [t |-> "string", n |-> 0, a |-> <<>>, s |-> s]
JArray(a)  == [t |-> "array", n |-> 0, a |-> a, s |-> ""]

\* json.Marshal of one value of the payload map
MarshalValue(v) ==
    CASE v.t = "int"        -> JNumber(v.n)
      [] v.t = "string"     -> JString(v.s)
      [] v.t = "[]int"      -> JArray(v.a)
      [] v.t = "[]int(nil)" -> JNull
      [] OTHER              -> JNull

\* json.Marshal of map[string]interface{}: one member per key
Marshal(m) == [k \in DOMAIN m |-> MarshalValue(m[k])]

EmptyMap == [k \in {} |-> Nil]

Put(m, k, v) == (k :> v) @@ m

\* results of Client operations: (value, error)
NoText == [k |-> "none", results |-> <<>>, count |-> 0, more |-> FALSE,
           rec |-> Nil, text |-> <<>>]
NoErr == [msg |-> "", status |-> 0, body |-> NoText]
Ok(v) == [ok |-> TRUE, val |-> v, err |-> NoErr]
\* an error that carries no response: err from httpClient.Do, from a decoder,
\* or "... not found"
Fail(msg, status) ==
    [ok |-> FALSE, val |-> Nil, err |-> [msg |-> msg, status |-> status, body |-> NoText]]
\* fmt.Errorf("... %d: %s", resp.StatusCode, string(body))
StatusError(msg, resp) ==
    [ok |-> FALSE, val |-> Nil,
     err |-> [msg |-> msg, status |-> resp.status, body |-> resp.body]]

-----------------------------------------------------------------------------
(* HTTP *)

NoBody == [k |-> "none", json |-> EmptyMap, file |-> "", fields |-> EmptyMap]
JSONBody(m) == [k |-> "json", json |-> m, file |-> "", fields |-> EmptyMap]
MultipartBody(file, fields) ==
    [k |-> "multipart", json |-> EmptyMap, file |-> file, fields |-> fields]

\* one HTTP request: method, /api/<res>/[<id>/][<sub>/], query, body; base is
\* what the path is appended to and auth the token of the Authorization
\* header, both filled in by Client.request, as are the names of the headers
Req(method, res, id, sub, query, body) ==
    [base |-> <<>>, auth |-> <<>>, headers |-> {}, method |-> method, res |-> res,
     id |-> id, sub |-> sub, query |-> query, body |-> body]

\* the query string: ?page_size=, ?task_id=, ?original=true, and the filters
\* of a document list as key=value pairs in the order they are written
NoQuery == [page_size |-> 0, task_id |-> <<>>, original |-> FALSE, filters |-> <<>>]

\* what httpClient.Do hands back: a transport failure, or a status and a body
TransportError == [failed |-> TRUE, status |-> 0,
                   body |-> [k |-> "none", results |-> <<>>, count |-> 0,
                             more |-> FALSE, rec |-> Nil, text |-> <<>>],
                   disposition |-> <<>>]
\* disposition is the Content-Disposition header, empty when there is none
Http(status, body) ==
    [failed |-> FALSE, status |-> status, body |-> body, disposition |-> <<>>]

EmptyBody == [k |-> "none", results |-> <<>>, count |-> 0, more |-> FALSE,
              rec |-> Nil, text |-> <<>>]
ErrorBody == [EmptyBody EXCEPT !.k = "error"]
PageBody(results, count, more) ==
    [EmptyBody EXCEPT !.k = "page", !.results = results, !.count = count,
                      !.more = more]
ArrayBody(results) == [EmptyBody EXCEPT !.k = "array", !.results = results]
RecordBody(r) == [EmptyBody EXCEPT !.k = "record", !.rec = r]
TextBody(t) == [EmptyBody EXCEPT !.k = "text", !.text = t]
\* a body whose read breaks off: what came before is in text
BrokenBody(b) ==
    [EmptyBody EXCEPT !.k = "broken",
                      !.text = SubSeq(b.text, 1, Len(b.text) \div 2)]

-----------------------------------------------------------------------------
(* The remote service, as far as the client can observe it *)

Kinds == {"tags", "correspondents", "document_types", "storage_paths"}

Min(a, b) == IF a < b THEN a ELSE b

RECURSIVE SortedSeq(_)
SortedSeq(S) ==
    IF S = {} THEN <<>>
    ELSE LET m == CHOOSE x \in S : \A y \in S : x <= y
         IN  <<m>> \o SortedSeq(S \ {m})

Range(f) == {f[i] : i \in DOMAIN f}

\* the page a list endpoint returns: the first page_size records
ServerPage(table, pageSize) ==
    PageBody(SubSeq(table, 1, Min(pageSize, Len(table))), Len(table),
             Len(table) > pageSize)

ServerDoc(srv, id) ==
    [id |-> id, tags |-> SortedSeq(srv.docs[id])]

RowsWithID(table, id) == {i \in 1..Len(table) : table[i].id = id}

RemoveAt(s, i) == SubSeq(s, 1, i - 1) \o SubSeq(s, i + 1, Len(s))

NextID(table) ==
    IF table = <<>> THEN 1
    ELSE 1 + (CHOOSE m \in {table[i].id : i \in 1..Len(table)} :
                 \A i \in 1..Len(table) : table[i].id <= m)

\* the task handle the ingestion endpoint answers with: a quoted string
TaskHandle(n) == <<"\"", "t", Digits[n + 1], "\"">>

\* the answer of the service to a request it accepts, and its state after it
ServerAccept(req, srv) ==
    CASE req.method = "GET" /\ req.res \in Kinds /\ req.id = 0 ->
            [resp |-> Http(200, ServerPage(srv.tables[req.res], req.query.page_size)),
             srv |-> srv]
      [] req.method = "GET" /\ req.res \in Kinds /\ req.id # 0 ->
            LET rows == RowsWithID(srv.tables[req.res], req.id)
            IN  IF rows = {} THEN [resp |-> Http(404, ErrorBody), srv |-> srv]
                ELSE [resp |-> Http(200, RecordBody(
                                  srv.tables[req.res][CHOOSE i \in rows : TRUE])),
                      srv |-> srv]
      [] req.method = "GET" /\ req.res = "tasks" ->
            [resp |-> Http(200, ArrayBody(
                         SelectSeq(srv.tasks, LAMBDA t : t.task_id = req.query.task_id))),
             srv |-> srv]
      [] req.method = "GET" /\ req.res = "documents" /\ req.sub = "" /\ req.id = 0 ->
            LET all == SortedSeq(DOMAIN srv.docs)
            IN  [resp |-> Http(200, PageBody([i \in 1..Len(all) |-> ServerDoc(srv, all[i])],
                                             Len(all), FALSE)),
                 srv |-> srv]
      [] req.method = "GET" /\ req.res = "documents" /\ req.sub = "" ->
            IF req.id \in DOMAIN srv.docs
            THEN [resp |-> Http(200, RecordBody(ServerDoc(srv, req.id))), srv |-> srv]
            ELSE [resp |-> Http(404, ErrorBody), srv |-> srv]
      [] req.method = "GET" /\ req.res = "documents" /\ req.sub = "download" ->
            IF req.id \in DOMAIN srv.docs
            THEN [resp |-> [Http(200, TextBody(IF req.query.original
                                               THEN <<"o", "r", "i", "g">>
                                               ELSE <<"%", "P", "D", "F">>))
                              EXCEPT !.disposition = srv.disposition],
                  srv |-> srv]
            ELSE [resp |-> Http(404, ErrorBody), srv |-> srv]
      [] req.method = "PATCH" /\ req.res = "documents" ->
            IF req.id \notin DOMAIN srv.docs
            THEN [resp |-> Http(404, ErrorBody), srv |-> srv]
            ELSE IF "tags" \in DOMAIN req.body.json
                    /\ req.body.json["tags"].t # "array"
            THEN [resp |-> Http(400, ErrorBody), srv |-> srv]
            ELSE LET given == DOMAIN req.body.json
                     new == [srv EXCEPT
                               !.docs[req.id] =
                                   IF "tags" \in given
                                   THEN Range(req.body.json["tags"].a) ELSE @,
                               !.meta[req.id] =
                                   [f \in DOMAIN @ |->
                                       IF f \in given THEN req.body.json[f] ELSE @[f]]]
                 IN  [resp |-> Http(200, RecordBody(ServerDoc(new, req.id))),
                      srv |-> new]
      [] req.method = "DELETE" /\ req.res = "documents" ->
            IF req.id \notin DOMAIN srv.docs
            THEN [resp |-> Http(404, ErrorBody), srv |-> srv]
            ELSE [resp |-> Http(204, EmptyBody),
                  srv |-> [srv EXCEPT
                             !.docs = [d \in (DOMAIN srv.docs) \ {req.id} |-> srv.docs[d]],
                             !.meta = [d \in (DOMAIN srv.meta) \ {req.id} |-> srv.meta[d]]]]
      [] req.method = "POST" /\ req.res = "documents" ->
            LET h == TaskHandle(Len(srv.tasks) + 1)
            IN  [resp |-> Http(200, TextBody(h)),
                 srv |-> [srv EXCEPT !.tasks = Append(@,
                             [task_id |-> SubSeq(h, 2, Len(h) - 1),
                              file |-> req.body.file,
                              fields |-> req.body.fields])]]
      [] req.method = "POST" /\ req.res \in Kinds ->
            LET r == [id |-> NextID(srv.tables[req.res]),
                      name |-> <<req.body.json["name"].s>>]
            IN  [resp |-> Http(201, RecordBody(r)),
                 srv |-> [srv EXCEPT !.tables[req.res] = Append(@, r)]]
      [] req.method = "PATCH" /\ req.res \in Kinds ->
            LET rows == RowsWithID(srv.tables[req.res], req.id)
            IN  IF rows = {} THEN [resp |-> Http(404, ErrorBody), srv |-> srv]
                ELSE LET i == CHOOSE j \in rows : TRUE
                         r == IF "name" \in DOMAIN req.body.json
                              THEN [srv.tables[req.res][i] EXCEPT
                                        !.name = <<req.body.json["name"].s>>]
                              ELSE srv.tables[req.res][i]
                     IN  [resp |-> Http(200, RecordBody(r)),
                          srv |-> [srv EXCEPT !.tables[req.res][i] = r]]
      [] req.method = "DELETE" /\ req.res \in Kinds ->
            LET rows == RowsWithID(srv.tables[req.res], req.id)
            IN  IF rows = {} THEN [resp |-> Http(404, ErrorBody), srv |-> srv]
                ELSE [resp |-> Http(204, EmptyBody),
                      srv |-> [srv EXCEPT !.tables[req.res] =
                                  RemoveAt(@, CHOOSE j \in rows : TRUE)]]
      [] OTHER -> [resp |-> Http(404, ErrorBody), srv |-> srv]

\* everything that can come back for a request: the service's answer, the
\* same answer under another success status, a refusal that changes nothing,
\* a body that does not decode, a body whose read breaks off, a text body
\* with white space around it, or no answer at all
Respond(req, srv) ==
    LET a == ServerAccept(req, srv)
    IN  {a, [resp |-> TransportError, srv |-> srv]}
        \cup {[resp |-> Http(s, a.resp.body), srv |-> a.srv] :
                 s \in {x \in srv.statuses : x < 300}}
        \cup {[resp |-> Http(s, ErrorBody), srv |-> srv] :
                 s \in {x \in srv.statuses : x >= 300}}
        \cup (IF srv.garbles
               THEN {[resp |-> Http(a.resp.status, ErrorBody), srv |-> a.srv],
                     [resp |-> [a.resp EXCEPT !.body = BrokenBody(@)], srv |-> a.srv]}
               ELSE {})
        \cup (IF a.resp.body.k = "text"
               THEN {[resp |-> Http(a.resp.status,
                                    TextBody(f.pre \o a.resp.body.text \o f.post)),
                      srv |-> a.srv] : f \in srv.framings}
               ELSE {})

\* tag sets another client may give a document
ForeignTagSets == {{}, {3}, {2, 4}}

\* another client of the service replaces the tags of a document; the
\* service notes after how many answers to this client it happened
OtherClient ==
    /\ server.shared
    /\ Len(server.foreign) < MaxForeign
    /\ \E d \in DOMAIN server.docs, s \in ForeignTagSets :
          /\ s # server.docs[d]
          /\ server' = [server EXCEPT
                           !.docs[d] = s,
                           !.foreign = Append(@, [at |-> Len(resps), doc |-> d,
                                                  tags |-> s, was |-> server.docs[d]])]
    /\ UNCHANGED <<cmd, client, config, pc, doc, updates, tags, idx, ids, call, ret, inflight, reqs, resps, out, err, hist, disk>>

-----------------------------------------------------------------------------
(* package config: the file config.yaml *)

\* config.Config
Config(url, token) == [URL |-> url, Token |-> token]

\* a value of the YAML document: a scalar written plain or in quotes, a
\* null, a sequence, or nothing when the key is not there
Plain(s)  == [kind |-> "plain", text |-> s]
Quoted(s) == [kind |-> "quoted", text |-> s]
YNull     == [kind |-> "null", text |-> <<>>]
YSeq      == [kind |-> "seq", text |-> <<>>]
YAbsent   == [kind |-> "absent", text |-> <<>>]

\* the file: whether it is there, whether os.ReadFile can read it, whether
\* its text is a YAML document, and the values of its two keys
ConfigFile(readable, wellformed, url, token) ==
    [exists |-> TRUE, readable |-> readable, wellformed |-> wellformed,
     url |-> url, token |-> token]

NoConfigFile ==
    [exists |-> FALSE, readable |-> FALSE, wellformed |-> FALSE,
     url |-> YAbsent, token |-> YAbsent]

\* yaml.Unmarshal of one value into a string field: the text of a scalar,
\* the zero value for a null or a missing key
UnmarshalString(v) == IF v.kind \in {"plain", "quoted"} THEN v.text ELSE <<>>

\* yaml.Marshal of a string field: in quotes when the text is empty or would
\* read back as a number, plain otherwise
MarshalString(s) ==
    IF s = <<>> \/ \A i \in 1..Len(s) : IsDigit(s[i]) THEN Quoted(s) ELSE Plain(s)

\* config.Load: no file is an empty Config; a file that cannot be read, is
\* no YAML, or holds a sequence where a string belongs, is an error
Load(file) ==
    IF ~file.exists THEN [ok |-> TRUE, cfg |-> Config(<<>>, <<>>)]
    ELSE IF ~file.readable THEN [ok |-> FALSE, cfg |-> Config(<<>>, <<>>)]
    ELSE IF ~file.wellformed \/ file.url.kind = "seq" \/ file.token.kind = "seq"
    THEN [ok |-> FALSE, cfg |-> Config(<<>>, <<>>)]
    ELSE [ok |-> TRUE,
          cfg |-> Config(UnmarshalString(file.url), UnmarshalString(file.token))]

\* config.Save: the directory or the file may refuse, and then the file is
\* as it was; otherwise the file holds the two fields and nothing else
Save(cfg, file) ==
    {[ok |-> FALSE, file |-> file],
     [ok |-> TRUE,
      file |-> ConfigFile(IF file.exists THEN file.readable ELSE TRUE, TRUE,
                          MarshalString(cfg.URL), MarshalString(cfg.Token))]}

\* config.GetURL: PAPERLESS_URL, else the url of the file
GetURL(env, file) ==
    IF env # <<>> THEN env
    ELSE IF ~Load(file).ok THEN <<>> ELSE Load(file).cfg.URL

\* config.GetToken: PAPERLESS_TOKEN, else the token of the file
GetToken(env, file) ==
    IF env # <<>> THEN env
    ELSE IF ~Load(file).ok THEN <<>> ELSE Load(file).cfg.Token

\* config.SetURL: a Config that cannot be loaded is replaced by an empty one
SetURL(url, file) ==
    LET cfg == IF Load(file).ok THEN Load(file).cfg ELSE Config(<<>>, <<>>)
    IN  Save([cfg EXCEPT !.URL = url], file)

\* config.SetToken
SetToken(token, file) ==
    LET cfg == IF Load(file).ok THEN Load(file).cfg ELSE Config(<<>>, <<>>)
    IN  Save([cfg EXCEPT !.Token = token], file)

-----------------------------------------------------------------------------
(* package api: the Client *)

\* strings.TrimSuffix
TrimSuffix(s, suffix) ==
    IF Len(s) >= Len(suffix) /\ SubSeq(s, Len(s) - Len(suffix) + 1, Len(s)) = suffix
    THEN SubSeq(s, 1, Len(s) - Len(suffix)) ELSE s

\* api.NewClient: the base URL loses one trailing slash
NewClient(baseURL, token) == [baseURL |-> TrimSuffix(baseURL, <<"/">>), token |-> token]

\* no Client yet
NoClient == [baseURL |-> <<>>, token |-> <<>>]

NoFile == [path |-> "", state |-> "ok", stem |-> ""]

\* a Client operation and its arguments
Call(op, kind, id, name, payload, file) ==
    [op |-> op, kind |-> kind, id |-> id, name |-> name, payload |-> payload,
     file |-> file, phase |-> "start"]

NoCall == [op |-> "none", kind |-> "", id |-> 0, name |-> <<>>,
           payload |-> EmptyMap, file |-> NoFile, phase |-> "idle"]

RECURSIVE ItoaDigits(_)
ItoaDigits(n) ==
    IF n < 10 THEN <<Digits[n + 1]>>
    ELSE Append(ItoaDigits(n \div 10), Digits[(n % 10) + 1])

\* strconv.Itoa
Itoa(n) == IF n < 0 THEN <<"-">> \o ItoaDigits(0 - n) ELSE ItoaDigits(n)

\* the form fields UploadDocument writes after the file part
UploadFields(p) ==
    [title |-> p["title"].s,
     correspondent |-> IF p["correspondent"].t = "nil" THEN <<>>
                       ELSE Itoa(p["correspondent"].n),
     document_type |-> IF p["document_type"].t = "nil" THEN <<>>
                       ELSE Itoa(p["document_type"].n),
     tags |-> [i \in 1..Len(p["tags"].a) |-> Itoa(p["tags"].a[i])]]

\* url.QueryEscape, on the characters of the model: a space becomes "+"
QueryEscape(s) == [i \in 1..Len(s) |-> IF s[i] = " " THEN "+" ELSE s[i]]

Param(key, val) == [key |-> key, val |-> QueryEscape(val)]

\* the query string of ListDocuments: url.Values filled filter by filter,
\* written by Encode sorted by key, the values of one key in the order added
ListDocumentsQuery(p) ==
    (IF p.Correspondent # <<>>
     THEN <<Param("correspondent__name__iexact", p.Correspondent)>> ELSE <<>>)
    \o (IF p.CreatedAfter # <<>>
        THEN <<Param("created__date__gt", p.CreatedAfter)>> ELSE <<>>)
    \o (IF p.CreatedBefore # <<>>
        THEN <<Param("created__date__lt", p.CreatedBefore)>> ELSE <<>>)
    \o (IF p.DocumentType # <<>>
        THEN <<Param("document_type__name__iexact", p.DocumentType)>> ELSE <<>>)
    \o (IF p.Ordering # <<>> THEN <<Param("ordering", p.Ordering)>> ELSE <<>>)
    \o (IF p.Page > 0 THEN <<Param("page", Itoa(p.Page))>> ELSE <<>>)
    \o (IF p.Limit > 0 THEN <<Param("page_size", Itoa(p.Limit))>> ELSE <<>>)
    \o (IF p.Query # <<>> THEN <<Param("query", p.Query)>> ELSE <<>>)
    \o [i \in 1..Len(p.Tags) |-> Param("tags__name__iexact", p.Tags[i])]

\* the request an operation hands to Client.request, or the failure that
\* makes it return before any request exists
BuildRequest(c) ==
    CASE c.op = "ListDocuments" ->
            [ok |-> TRUE,
             req |-> Req("GET", "documents", 0, "",
                         [NoQuery EXCEPT !.filters = ListDocumentsQuery(c.payload)],
                         NoBody)]
      [] c.op \in {"List", "FindByName"} ->
            [ok |-> TRUE,
             req |-> Req("GET", c.kind, 0, "", [NoQuery EXCEPT !.page_size = PageSize], NoBody)]
      [] c.op = "Get" ->
            [ok |-> TRUE, req |-> Req("GET", c.kind, c.id, "", NoQuery, NoBody)]
      [] c.op = "Create" ->
            [ok |-> TRUE,
             req |-> Req("POST", c.kind, 0, "", NoQuery,
                         JSONBody(Marshal(c.payload)))]
      [] c.op = "Update" ->
            [ok |-> TRUE,
             req |-> Req("PATCH", c.kind, c.id, "", NoQuery,
                         JSONBody(Marshal(c.payload)))]
      [] c.op = "Delete" ->
            [ok |-> TRUE, req |-> Req("DELETE", c.kind, c.id, "", NoQuery, NoBody)]
      [] c.op = "UploadDocument" ->
            IF c.file.state # "ok"
            THEN [ok |-> FALSE, req |-> Req("", "", 0, "", NoQuery, NoBody)]
            ELSE [ok |-> TRUE,
                  req |-> Req("POST", "documents", 0, "post_document", NoQuery,
                              MultipartBody(c.file.path, UploadFields(c.payload)))]
      [] c.op = "DownloadDocument" ->
            [ok |-> TRUE,
             req |-> Req("GET", "documents", c.id, "download",
                         [NoQuery EXCEPT !.original = c.payload.original], NoBody)]
      [] c.op = "GetTask" ->
            [ok |-> TRUE,
             req |-> Req("GET", "tasks", 0, "", [NoQuery EXCEPT !.task_id = c.name], NoBody)]

\* ListTags, ListCorrespondents, ListDocumentTypes, ListStoragePaths
ListResult(resp) ==
    IF resp.failed THEN Fail("transport", 0)
    ELSE IF resp.status # 200 THEN StatusError("API error", resp)
    ELSE IF resp.body.k # "page" THEN Fail("decode", 0)
    ELSE Ok(resp.body.results)

\* a Get that takes every 2xx status as success
GetResultAny2xx(resp) ==
    IF resp.failed THEN Fail("transport", 0)
    ELSE IF resp.status = 404 THEN Fail("not found", 0)
    ELSE IF resp.status < 200 \/ resp.status > 299 THEN StatusError("API error", resp)
    ELSE IF resp.body.k # "record" THEN Fail("decode", 0)
    ELSE Ok(resp.body.rec)

\* ListDocuments
ListDocumentsResult(resp) ==
    IF resp.failed THEN Fail("transport", 0)
    ELSE IF resp.status # 200 THEN StatusError("API error", resp)
    ELSE IF resp.body.k # "page" THEN Fail("decode", 0)
    ELSE Ok([results |-> resp.body.results, count |-> resp.body.count])

\* GetDocument, GetTag, GetCorrespondent, GetDocumentType, GetStoragePath
GetResult(resp) ==
    IF resp.failed THEN Fail("transport", 0)
    ELSE IF resp.status = 404 THEN Fail("not found", 0)
    ELSE IF resp.status # 200 THEN StatusError("API error", resp)
    ELSE IF resp.body.k # "record" THEN Fail("decode", 0)
    ELSE Ok(resp.body.rec)

\* CreateTag, CreateCorrespondent, CreateDocumentType, CreateStoragePath
CreateResult(resp) ==
    IF resp.failed THEN Fail("transport", 0)
    ELSE IF resp.status # 201 /\ resp.status # 200
         THEN StatusError("create failed", resp)
    ELSE IF resp.body.k # "record" THEN Fail("decode", 0)
    ELSE Ok(resp.body.rec)

\* an Update that takes every 2xx status as success
UpdateResultAny2xx(resp) ==
    IF resp.failed THEN Fail("transport", 0)
    ELSE IF ~(resp.status >= 200 /\ resp.status <= 299)
         THEN StatusError("update failed", resp)
    ELSE IF resp.body.k # "record" THEN Fail("decode", 0)
    ELSE Ok(resp.body.rec)

\* UpdateDocument, UpdateTag, UpdateCorrespondent, UpdateDocumentType
UpdateResult(resp) ==
    IF resp.failed THEN Fail("transport", 0)
    ELSE IF resp.status # 200 THEN StatusError("update failed", resp)
    ELSE IF resp.body.k # "record" THEN Fail("decode", 0)
    ELSE Ok(resp.body.rec)

\* DeleteDocument, DeleteTag, DeleteCorrespondent, DeleteDocumentType, ...
DeleteResult(resp) ==
    IF resp.failed THEN Fail("transport", 0)
    ELSE IF resp.status # 204 /\ resp.status # 200
         THEN StatusError("delete failed", resp)
    ELSE Ok(Nil)

RECURSIVE TrimLeft(_, _)
TrimLeft(s, cut) ==
    IF s # <<>> /\ Head(s) \in cut THEN TrimLeft(Tail(s), cut) ELSE s

RECURSIVE TrimRight(_, _)
TrimRight(s, cut) ==
    IF s # <<>> /\ s[Len(s)] \in cut THEN TrimRight(SubSeq(s, 1, Len(s) - 1), cut)
    ELSE s

\* a trim that takes at most one character off each end
TrimOnce(s, cut) ==
    LET l == IF s # <<>> /\ Head(s) \in cut THEN Tail(s) ELSE s
    IN  IF l # <<>> /\ l[Len(l)] \in cut THEN SubSeq(l, 1, Len(l) - 1) ELSE l

\* strings.Trim
Trim(s, cut) == TrimRight(TrimLeft(s, cut), cut)

UploadResult(resp) ==
    IF resp.failed THEN Fail("transport", 0)
    ELSE IF resp.status # 200 /\ resp.status # 201 /\ resp.status # 202
         THEN StatusError("upload failed", resp)
    ELSE Ok(Trim(resp.body.text, {"\"", " ", "\n"}))

FilenameKey == <<"f", "i", "l", "e", "n", "a", "m", "e", "=">>

\* strings.Index: where sub first occurs in s (1-based), 0 when it does not
Index(s, sub) ==
    LET at == {i \in 1..(Len(s) - Len(sub) + 1) : SubSeq(s, i, i + Len(sub) - 1) = sub}
    IN  IF at = {} THEN 0 ELSE CHOOSE i \in at : \A j \in at : i <= j

\* the filename DownloadDocument takes from Content-Disposition
DispositionFilename(cd) ==
    IF cd = <<>> \/ Index(cd, FilenameKey) = 0 THEN <<>>
    ELSE Trim(SubSeq(cd, Index(cd, FilenameKey) + Len(FilenameKey), Len(cd)), {"\""})

\* DownloadDocument
DownloadResult(resp) ==
    IF resp.failed THEN Fail("transport", 0)
    ELSE IF resp.status # 200 THEN StatusError("download failed", resp)
    ELSE IF resp.body.k = "broken" THEN Fail("read", 0)
    ELSE Ok([data |-> resp.body.text,
             filename |-> DispositionFilename(resp.disposition)])

\* a GetTask that returns the last element of the list
GetTaskResultLast(resp) ==
    IF resp.failed THEN Fail("transport", 0)
    ELSE IF resp.status # 200 THEN StatusError("API error", resp)
    ELSE IF resp.body.k # "array" THEN Fail("decode", 0)
    ELSE IF Len(resp.body.results) = 0 THEN Fail("not found", 0)
    ELSE Ok(resp.body.results[Len(resp.body.results)])

\* GetTask
GetTaskResult(resp) ==
    IF resp.failed THEN Fail("transport", 0)
    ELSE IF resp.status # 200 THEN StatusError("API error", resp)
    ELSE IF resp.body.k # "array" THEN Fail("decode", 0)
    ELSE IF Len(resp.body.results) = 0 THEN Fail("not found", 0)
    ELSE Ok(resp.body.results[1])

\* the loop that returns the last record whose name matches
LastMatch(results, name) ==
    LET hits == {i \in 1..Len(results) : EqualFold(results[i].name, name)}
    IN  IF hits = {} THEN 0 ELSE CHOOSE i \in hits : \A j \in hits : j <= i

\* for _, r := range list.Results { if strings.EqualFold(r.Name, name) { return &r } }:
\* the index of the first record whose name matches, 0 when the loop ends
FirstMatch(results, name) ==
    LET hits == {i \in 1..Len(results) : EqualFold(results[i].name, name)}
    IN  IF hits = {} THEN 0 ELSE CHOOSE i \in hits : \A j \in hits : i <= j

\* a lookup that returns the first record whatever its name
FindAny(resp, name) ==
    LET l == ListResult(resp)
    IN  IF ~l.ok THEN l
        ELSE IF Len(l.val) = 0 THEN Fail("not found", 0) ELSE Ok(l.val[1])

\* FindTagByName, FindCorrespondentByName, FindDocumentTypeByName,
\* FindStoragePathByName
FindByNameResult(resp, name) ==
    LET l == ListResult(resp)
    IN  IF ~l.ok THEN l
        ELSE LET i == FirstMatch(l.val, name)
             IN  IF i = 0 THEN Fail("not found", 0) ELSE Ok(l.val[i])

\* what the operation returns for the response of its request
Result(c, resp) ==
    CASE c.op = "List"             -> ListResult(resp)
      [] c.op = "ListDocuments"    -> ListDocumentsResult(resp)
      [] c.op = "FindByName"       -> FindByNameResult(resp, c.name)
      [] c.op = "Get"              -> GetResult(resp)
      [] c.op = "Create"           -> CreateResult(resp)
      [] c.op = "Update"           -> UpdateResult(resp)
      [] c.op = "Delete"           -> DeleteResult(resp)
      [] c.op = "UploadDocument"   -> UploadResult(resp)
      [] c.op = "DownloadDocument" -> DownloadResult(resp)
      [] c.op = "GetTask"          -> GetTaskResult(resp)

\* url := c.baseURL + path, the header "Authorization: Token <token>", a
\* Content-Type when there is a body, and Accept
Sent(req) ==
    [req EXCEPT !.base = client.baseURL, !.auth = client.token,
                !.headers = {"Authorization", "Accept"}
                            \cup (IF req.body.k # "none" THEN {"Content-Type"} ELSE {})]

\* a request() that hands the request to the transport twice
RequestTwice(c) ==
    LET b == BuildRequest(c)
    IN  /\ b.ok
        /\ inflight' = inflight \o <<Sent(b.req), Sent(b.req)>>
        /\ reqs' = reqs \o <<Sent(b.req), Sent(b.req)>>
        /\ call' = [c EXCEPT !.phase = "wait"]
        /\ ret' = ret

\* Client.request: build the request and hand it to httpClient.Do; an
\* operation that cannot build its request returns its error at once
Request(c) ==
    LET b == BuildRequest(c)
    IN  IF b.ok
        THEN /\ inflight' = Append(inflight, Sent(b.req))
             /\ reqs' = Append(reqs, Sent(b.req))
             /\ call' = [c EXCEPT !.phase = "wait"]
             /\ ret' = ret
        ELSE /\ ret' = Fail("open", 0)
             /\ call' = NoCall
             /\ UNCHANGED <<inflight, reqs>>

\* the operation starts: it sends its one request
ClientSend ==
    /\ call.phase = "start"
    /\ Request(call)
    /\ UNCHANGED <<cmd, client, config, pc, doc, updates, tags, idx, ids, resps, server, out, err, hist, disk>>

\* httpClient.Do returns and the operation returns to its caller
ClientRecv ==
    /\ call.phase = "wait"
    /\ inflight # <<>>
    /\ \E r \in Respond(Head(inflight), server) :
          /\ server' = r.srv
          /\ ret' = Result(call, r.resp)
          /\ resps' = Append(resps, r.resp)
    /\ inflight' = Tail(inflight)
    /\ call' = NoCall
    /\ UNCHANGED <<cmd, client, config, pc, doc, updates, tags, idx, ids, reqs, out, err, hist, disk>>

\* the handler is running (not inside a Client operation)
Running(label) == pc = label /\ call.op = "none"

-----------------------------------------------------------------------------
(* package cmd: what the handlers share *)

NoIDs == [correspondentID |-> Nil, docTypeID |-> Nil, tagIDs |-> <<>>, list |-> <<>>]

NoDoc == [id |-> 0, tags |-> <<>>]

\* the handler returns e (nil when e = NoErr)
Return(e) == pc' = "done" /\ err' = e

CmdErr(msg) == [msg |-> msg, status |-> 0, body |-> NoText]

\* a getClient that asks the environment before the flag
getClientEnvFirst ==
    LET url   == IF GetURL(cmd.envURL, config) # <<>>
                 THEN GetURL(cmd.envURL, config) ELSE cmd.urlFlag
        token == GetToken(cmd.envToken, config)
    IN  IF url = <<>>
        THEN [ok |-> FALSE, err |-> CmdErr("no server URL configured"), client |-> NoClient]
        ELSE IF token = <<>>
        THEN [ok |-> FALSE, err |-> CmdErr("no API token configured"), client |-> NoClient]
        ELSE [ok |-> TRUE, err |-> NoErr, client |-> NewClient(url, token)]

\* getClient: the URL is --url, else config.GetURL; the token is
\* config.GetToken; without either there is no Client
getClient ==
    LET url   == IF cmd.urlFlag # <<>> THEN cmd.urlFlag ELSE GetURL(cmd.envURL, config)
        token == GetToken(cmd.envToken, config)
    IN  IF url = <<>>
        THEN [ok |-> FALSE, err |-> CmdErr("no server URL configured"), client |-> NoClient]
        ELSE IF token = <<>>
        THEN [ok |-> FALSE, err |-> CmdErr("no API token configured"), client |-> NoClient]
        ELSE [ok |-> TRUE, err |-> NoErr, client |-> NewClient(url, token)]

Line(msg, id, task) == [msg |-> msg, id |-> id, task |-> task]

\* one entry of hist: the token, whether a List request was made for it,
\* whether it resolved, and to which ID
Resolved(phase, token, listed, ok, id) ==
    [phase |-> phase, token |-> token, listed |-> listed, ok |-> ok, id |-> id]

\* a range over the map that comes by one key a second time
PermsRepeating(S) ==
    LET once == {f \in [1..Cardinality(S) -> S] : \A x \in S : \E i \in 1..Cardinality(S) : f[i] = x}
    IN  once \cup {Append(f, f[1]) : f \in {g \in once : g # <<>>}}

\* the orders in which ranging over a map[int]bool can visit its keys
Perms(S) ==
    {f \in [1..Cardinality(S) -> S] : \A x \in S : \E i \in 1..Cardinality(S) : f[i] = x}

-----------------------------------------------------------------------------
(* documents edit *)

\* the Client is made, args[0] is parsed and the current document is fetched
EditStart ==
    /\ Running("edit")
    /\ LET c  == getClient
           id == Atoi(cmd.args[1])
       IN  IF ~c.ok
           THEN /\ Return(c.err)
                /\ UNCHANGED <<call, client>>
           ELSE /\ client' = c.client
                /\ IF ~id.ok
                   THEN /\ Return(CmdErr("invalid document ID"))
                        /\ UNCHANGED call
                   ELSE /\ call' = Call("Get", "documents", id.val, <<>>, EmptyMap, NoFile)
                        /\ pc' = "edit_get"
                        /\ UNCHANGED err
    /\ UNCHANGED <<cmd, config, doc, updates, tags, idx, ids, ret, inflight, reqs, resps, server, out, hist, disk>>

\* GetDocument returned; updates is created and the title is recorded
EditGot ==
    /\ Running("edit_get")
    /\ IF ~ret.ok
       THEN /\ Return(ret.err)
            /\ UNCHANGED <<doc, updates>>
       ELSE /\ doc' = ret.val
            /\ updates' = IF cmd.editTitle # ""
                          THEN Put(EmptyMap, "title", GoString(cmd.editTitle))
                          ELSE EmptyMap
            /\ pc' = "edit_corr"
            /\ UNCHANGED err
    /\ UNCHANGED <<cmd, client, config, tags, idx, ids, call, ret, inflight, reqs, resps, server, out, hist, disk>>

\* --correspondent: "-" or "none" clears, a number is taken as the ID, a
\* name is looked up
EditCorrespondent ==
    /\ Running("edit_corr")
    /\ LET tok == cmd.editCorrespondent
           n   == Atoi(tok)
       IN  IF tok = <<>>
           THEN pc' = "edit_dtype" /\ UNCHANGED <<updates, call, hist>>
           ELSE IF tok = <<"-">> \/ tok = <<"n", "o", "n", "e">>
           THEN /\ updates' = Put(updates, "correspondent", Nil)
                /\ pc' = "edit_dtype"
                /\ UNCHANGED <<call, hist>>
           ELSE IF n.ok
           THEN /\ updates' = Put(updates, "correspondent", GoInt(n.val))
                /\ hist' = Append(hist, Resolved("correspondent", tok, FALSE, TRUE, n.val))
                /\ pc' = "edit_dtype"
                /\ UNCHANGED call
           ELSE /\ call' = Call("FindByName", "correspondents", 0, tok, EmptyMap, NoFile)
                /\ pc' = "edit_corr_find"
                /\ UNCHANGED <<updates, hist>>
    /\ UNCHANGED <<cmd, client, config, doc, tags, idx, ids, ret, inflight, reqs, resps, server, out, err, disk>>

\* an edit that passes over a correspondent it cannot resolve
EditCorrespondentFoundSkip ==
    /\ Running("edit_corr_find")
    /\ IF ~ret.ok
       THEN /\ hist' = Append(hist, Resolved("correspondent", cmd.editCorrespondent, TRUE, FALSE, 0))
            /\ UNCHANGED updates
       ELSE /\ updates' = Put(updates, "correspondent", GoInt(ret.val.id))
            /\ hist' = Append(hist, Resolved("correspondent", cmd.editCorrespondent, TRUE, TRUE, ret.val.id))
    /\ pc' = "edit_dtype"
    /\ UNCHANGED <<cmd, client, config, doc, tags, idx, ids, call, ret, inflight, reqs, resps, server, out, err, disk>>

\* FindCorrespondentByName returned
EditCorrespondentFound ==
    /\ Running("edit_corr_find")
    /\ IF ~ret.ok
       THEN /\ Return(CmdErr("correspondent not found"))
            /\ hist' = Append(hist, Resolved("correspondent", cmd.editCorrespondent, TRUE, FALSE, 0))
            /\ UNCHANGED updates
       ELSE /\ updates' = Put(updates, "correspondent", GoInt(ret.val.id))
            /\ hist' = Append(hist, Resolved("correspondent", cmd.editCorrespondent, TRUE, TRUE, ret.val.id))
            /\ pc' = "edit_dtype"
            /\ UNCHANGED err
    /\ UNCHANGED <<cmd, client, config, doc, tags, idx, ids, call, ret, inflight, reqs, resps, server, out, disk>>

\* --type: as --correspondent
EditDocType ==
    /\ Running("edit_dtype")
    /\ LET tok == cmd.editDocType
           n   == Atoi(tok)
       IN  IF tok = <<>>
           THEN pc' = "edit_asn" /\ UNCHANGED <<updates, call, hist>>
           ELSE IF tok = <<"-">> \/ tok = <<"n", "o", "n", "e">>
           THEN /\ updates' = Put(updates, "document_type", Nil)
                /\ pc' = "edit_asn"
                /\ UNCHANGED <<call, hist>>
           ELSE IF n.ok
           THEN /\ updates' = Put(updates, "document_type", GoInt(n.val))
                /\ hist' = Append(hist, Resolved("document_type", tok, FALSE, TRUE, n.val))
                /\ pc' = "edit_asn"
                /\ UNCHANGED call
           ELSE /\ call' = Call("FindByName", "document_types", 0, tok, EmptyMap, NoFile)
                /\ pc' = "edit_dtype_find"
                /\ UNCHANGED <<updates, hist>>
    /\ UNCHANGED <<cmd, client, config, doc, tags, idx, ids, ret, inflight, reqs, resps, server, out, err, disk>>

\* FindDocumentTypeByName returned
EditDocTypeFound ==
    /\ Running("edit_dtype_find")
    /\ IF ~ret.ok
       THEN /\ Return(CmdErr("document type not found"))
            /\ hist' = Append(hist, Resolved("document_type", cmd.editDocType, TRUE, FALSE, 0))
            /\ UNCHANGED updates
       ELSE /\ updates' = Put(updates, "document_type", GoInt(ret.val.id))
            /\ hist' = Append(hist, Resolved("document_type", cmd.editDocType, TRUE, TRUE, ret.val.id))
            /\ pc' = "edit_asn"
            /\ UNCHANGED err
    /\ UNCHANGED <<cmd, client, config, doc, tags, idx, ids, call, ret, inflight, reqs, resps, server, out, disk>>

\* an edit that sends the archive serial number whether it was given or not
EditASNAlways ==
    /\ Running("edit_asn")
    /\ updates' = Put(updates, "archive_serial_number", GoInt(cmd.editASN))
    /\ IF Len(cmd.editAddTags) > 0 \/ Len(cmd.editRemoveTags) > 0
       THEN /\ tags' = Range(doc.tags)
            /\ idx' = 1
            /\ pc' = "edit_add"
       ELSE /\ pc' = "edit_update"
            /\ UNCHANGED <<tags, idx>>
    /\ UNCHANGED <<cmd, client, config, doc, ids, call, ret, inflight, reqs, resps, server, out, err, hist, disk>>

\* an edit that starts the working set from the tags the service holds at
\* that moment
EditASNFresh ==
    /\ Running("edit_asn")
    /\ updates' = IF cmd.editASN > 0
                  THEN Put(updates, "archive_serial_number", GoInt(cmd.editASN))
                  ELSE updates
    /\ IF Len(cmd.editAddTags) > 0 \/ Len(cmd.editRemoveTags) > 0
       THEN /\ tags' = server.docs[doc.id]
            /\ idx' = 1
            /\ pc' = "edit_add"
       ELSE /\ pc' = "edit_update"
            /\ UNCHANGED <<tags, idx>>
    /\ UNCHANGED <<cmd, client, config, doc, ids, call, ret, inflight, reqs, resps, server, out, err, hist, disk>>

\* --asn, then the working set of tags starts as the document's tags
EditASN ==
    /\ Running("edit_asn")
    /\ updates' = IF cmd.editASN > 0
                  THEN Put(updates, "archive_serial_number", GoInt(cmd.editASN))
                  ELSE updates
    /\ IF Len(cmd.editAddTags) > 0 \/ Len(cmd.editRemoveTags) > 0
       THEN /\ tags' = Range(doc.tags)
            /\ idx' = 1
            /\ pc' = "edit_add"
       ELSE /\ pc' = "edit_update"
            /\ UNCHANGED <<tags, idx>>
    /\ UNCHANGED <<cmd, client, config, doc, ids, call, ret, inflight, reqs, resps, server, out, err, hist, disk>>

\* an add loop that remembers the names it has looked up and takes the ID
\* from there the second time
EditAddTagCached ==
    /\ Running("edit_add")
    /\ IF idx > Len(cmd.editAddTags)
       THEN /\ pc' = "edit_remove"
            /\ idx' = 1
            /\ UNCHANGED <<tags, call, hist>>
       ELSE LET tok  == cmd.editAddTags[idx]
                n    == Atoi(tok)
                seen == {j \in 1..Len(hist) : hist[j].token = tok /\ hist[j].ok}
            IN  IF n.ok \/ seen # {}
                THEN LET id == IF n.ok THEN n.val ELSE hist[CHOOSE j \in seen : TRUE].id
                     IN  /\ tags' = tags \cup {id}
                         /\ hist' = Append(hist, Resolved("add", tok, FALSE, TRUE, id))
                         /\ idx' = idx + 1
                         /\ UNCHANGED <<pc, call>>
                ELSE /\ call' = Call("FindByName", "tags", 0, tok, EmptyMap, NoFile)
                     /\ pc' = "edit_add_find"
                     /\ UNCHANGED <<tags, idx, hist>>
    /\ UNCHANGED <<cmd, client, config, doc, updates, ids, ret, inflight, reqs, resps, server, out, err, disk>>

\* for _, tagArg := range editAddTags: a number is added as it is, a name is
\* looked up; after the last one the remove loop starts
EditAddTag ==
    /\ Running("edit_add")
    /\ IF idx > Len(cmd.editAddTags)
       THEN /\ pc' = "edit_remove"
            /\ idx' = 1
            /\ UNCHANGED <<tags, call, hist>>
       ELSE LET tok == cmd.editAddTags[idx]
                n   == Atoi(tok)
            IN  IF n.ok
                THEN /\ tags' = tags \cup {n.val}
                     /\ hist' = Append(hist, Resolved("add", tok, FALSE, TRUE, n.val))
                     /\ idx' = idx + 1
                     /\ UNCHANGED <<pc, call>>
                ELSE /\ call' = Call("FindByName", "tags", 0, tok, EmptyMap, NoFile)
                     /\ pc' = "edit_add_find"
                     /\ UNCHANGED <<tags, idx, hist>>
    /\ UNCHANGED <<cmd, client, config, doc, updates, ids, ret, inflight, reqs, resps, server, out, err, disk>>

\* FindTagByName returned for an add token
EditAddTagFound ==
    /\ Running("edit_add_find")
    /\ IF ~ret.ok
       THEN /\ Return(CmdErr("tag not found"))
            /\ hist' = Append(hist, Resolved("add", cmd.editAddTags[idx], TRUE, FALSE, 0))
            /\ UNCHANGED <<tags, idx>>
       ELSE /\ tags' = tags \cup {ret.val.id}
            /\ hist' = Append(hist, Resolved("add", cmd.editAddTags[idx], TRUE, TRUE, ret.val.id))
            /\ idx' = idx + 1
            /\ pc' = "edit_add"
            /\ UNCHANGED err
    /\ UNCHANGED <<cmd, client, config, doc, updates, ids, call, ret, inflight, reqs, resps, server, out, disk>>

\* for _, tagArg := range editRemoveTags; after the last one the set is
\* copied into newTags (a nil slice when the set is empty) in map order
EditRemoveTag ==
    /\ Running("edit_remove")
    /\ IF idx > Len(cmd.editRemoveTags)
       THEN /\ \E order \in Perms(tags) :
                  updates' = Put(updates, "tags",
                                 IF tags = {} THEN GoNilSlice ELSE GoIntSlice(order))
            /\ pc' = "edit_update"
            /\ UNCHANGED <<tags, idx, call, hist>>
       ELSE LET tok == cmd.editRemoveTags[idx]
                n   == Atoi(tok)
            IN  IF n.ok
                THEN /\ tags' = tags \ {n.val}
                     /\ hist' = Append(hist, Resolved("remove", tok, FALSE, TRUE, n.val))
                     /\ idx' = idx + 1
                     /\ UNCHANGED <<pc, call, updates>>
                ELSE /\ call' = Call("FindByName", "tags", 0, tok, EmptyMap, NoFile)
                     /\ pc' = "edit_remove_find"
                     /\ UNCHANGED <<tags, idx, hist, updates>>
    /\ UNCHANGED <<cmd, client, config, doc, ids, ret, inflight, reqs, resps, server, out, err, disk>>

\* FindTagByName returned for a remove token: on any error the token is
\* passed over ("Tag doesn't exist, nothing to remove")
EditRemoveTagFound ==
    /\ Running("edit_remove_find")
    /\ IF ~ret.ok
       THEN /\ hist' = Append(hist, Resolved("remove", cmd.editRemoveTags[idx], TRUE, FALSE, 0))
            /\ UNCHANGED tags
       ELSE /\ tags' = tags \ {ret.val.id}
            /\ hist' = Append(hist, Resolved("remove", cmd.editRemoveTags[idx], TRUE, TRUE, ret.val.id))
    /\ idx' = idx + 1
    /\ pc' = "edit_remove"
    /\ UNCHANGED <<cmd, client, config, doc, updates, ids, call, ret, inflight, reqs, resps, server, out, err, disk>>

\* an update that sends the payload even when it is empty
EditUpdateAlways ==
    /\ Running("edit_update")
    /\ call' = Call("Update", "documents", Atoi(cmd.args[1]).val, <<>>, updates, NoFile)
    /\ pc' = "edit_sent"
    /\ UNCHANGED <<cmd, client, config, doc, updates, tags, idx, ids, ret, inflight, reqs, resps, server, out, err, hist, disk>>

\* nothing to change is an error; otherwise the payload is sent
EditUpdate ==
    /\ Running("edit_update")
    /\ LET id == Atoi(cmd.args[1])
       IN  IF DOMAIN updates = {}
           THEN /\ Return(CmdErr("no changes specified"))
                /\ UNCHANGED call
           ELSE /\ call' = Call("Update", "documents", id.val, <<>>, updates, NoFile)
                /\ pc' = "edit_sent"
                /\ UNCHANGED err
    /\ UNCHANGED <<cmd, client, config, doc, updates, tags, idx, ids, ret, inflight, reqs, resps, server, out, hist, disk>>

\* UpdateDocument returned
EditDone ==
    /\ Running("edit_sent")
    /\ IF ~ret.ok
       THEN /\ Return(ret.err)
            /\ UNCHANGED out
       ELSE /\ Return(NoErr)
            /\ out' = IF cmd.jsonOutput THEN Append(out, Line("json", ret.val.id, <<>>))
                      ELSE IF ~cmd.quietMode
                           THEN Append(out, Line("Updated document", ret.val.id, <<>>))
                           ELSE out
    /\ UNCHANGED <<cmd, client, config, doc, updates, tags, idx, ids, call, ret, inflight, reqs, resps, server, hist, disk>>

-----------------------------------------------------------------------------
(* documents upload *)

\* the Client is made; --correspondent is resolved first
UploadCorrespondent ==
    /\ Running("upload")
    /\ LET c   == getClient
           tok == cmd.uploadCorrespondent
           n   == Atoi(tok)
       IN  IF ~c.ok
           THEN Return(c.err) /\ UNCHANGED <<ids, call, hist, client>>
           ELSE /\ client' = c.client
                /\ UNCHANGED err
                /\ IF tok = <<>>
                   THEN pc' = "upload_dtype" /\ UNCHANGED <<ids, call, hist>>
                   ELSE IF n.ok
                   THEN /\ ids' = [ids EXCEPT !.correspondentID = GoInt(n.val)]
                        /\ hist' = Append(hist, Resolved("correspondent", tok, FALSE, TRUE, n.val))
                        /\ pc' = "upload_dtype"
                        /\ UNCHANGED call
                   ELSE /\ call' = Call("FindByName", "correspondents", 0, tok, EmptyMap, NoFile)
                        /\ pc' = "upload_corr_find"
                        /\ UNCHANGED <<ids, hist>>
    /\ UNCHANGED <<cmd, config, doc, updates, tags, idx, ret, inflight, reqs, resps, server, out, disk>>

UploadCorrespondentFound ==
    /\ Running("upload_corr_find")
    /\ IF ~ret.ok
       THEN /\ Return(CmdErr("correspondent not found"))
            /\ hist' = Append(hist, Resolved("correspondent", cmd.uploadCorrespondent, TRUE, FALSE, 0))
            /\ UNCHANGED ids
       ELSE /\ ids' = [ids EXCEPT !.correspondentID = GoInt(ret.val.id)]
            /\ hist' = Append(hist, Resolved("correspondent", cmd.uploadCorrespondent, TRUE, TRUE, ret.val.id))
            /\ pc' = "upload_dtype"
            /\ UNCHANGED err
    /\ UNCHANGED <<cmd, client, config, doc, updates, tags, idx, call, ret, inflight, reqs, resps, server, out, disk>>

\* --type is resolved next
UploadDocType ==
    /\ Running("upload_dtype")
    /\ LET tok == cmd.uploadDocType
           n   == Atoi(tok)
       IN  IF tok = <<>>
           THEN pc' = "upload_tags" /\ idx' = 1 /\ UNCHANGED <<ids, call, hist>>
           ELSE IF n.ok
           THEN /\ ids' = [ids EXCEPT !.docTypeID = GoInt(n.val)]
                /\ hist' = Append(hist, Resolved("document_type", tok, FALSE, TRUE, n.val))
                /\ pc' = "upload_tags"
                /\ idx' = 1
                /\ UNCHANGED call
           ELSE /\ call' = Call("FindByName", "document_types", 0, tok, EmptyMap, NoFile)
                /\ pc' = "upload_dtype_find"
                /\ UNCHANGED <<ids, hist, idx>>
    /\ UNCHANGED <<cmd, client, config, doc, updates, tags, ret, inflight, reqs, resps, server, out, err, disk>>

UploadDocTypeFound ==
    /\ Running("upload_dtype_find")
    /\ IF ~ret.ok
       THEN /\ Return(CmdErr("document type not found"))
            /\ hist' = Append(hist, Resolved("document_type", cmd.uploadDocType, TRUE, FALSE, 0))
            /\ UNCHANGED <<ids, idx>>
       ELSE /\ ids' = [ids EXCEPT !.docTypeID = GoInt(ret.val.id)]
            /\ hist' = Append(hist, Resolved("document_type", cmd.uploadDocType, TRUE, TRUE, ret.val.id))
            /\ pc' = "upload_tags"
            /\ idx' = 1
            /\ UNCHANGED err
    /\ UNCHANGED <<cmd, client, config, doc, updates, tags, call, ret, inflight, reqs, resps, server, out, disk>>

\* for _, tagArg := range uploadTags
UploadTag ==
    /\ Running("upload_tags")
    /\ IF idx > Len(cmd.uploadTags)
       THEN /\ pc' = "upload_files"
            /\ idx' = 1
            /\ UNCHANGED <<ids, call, hist>>
       ELSE LET tok == cmd.uploadTags[idx]
                n   == Atoi(tok)
            IN  IF n.ok
                THEN /\ ids' = [ids EXCEPT !.tagIDs = Append(@, n.val)]
                     /\ hist' = Append(hist, Resolved("tag", tok, FALSE, TRUE, n.val))
                     /\ idx' = idx + 1
                     /\ UNCHANGED <<pc, call>>
                ELSE /\ call' = Call("FindByName", "tags", 0, tok, EmptyMap, NoFile)
                     /\ pc' = "upload_tag_find"
                     /\ UNCHANGED <<ids, idx, hist>>
    /\ UNCHANGED <<cmd, client, config, doc, updates, tags, ret, inflight, reqs, resps, server, out, err, disk>>

UploadTagFound ==
    /\ Running("upload_tag_find")
    /\ IF ~ret.ok
       THEN /\ Return(CmdErr("tag not found"))
            /\ hist' = Append(hist, Resolved("tag", cmd.uploadTags[idx], TRUE, FALSE, 0))
            /\ UNCHANGED <<ids, idx>>
       ELSE /\ ids' = [ids EXCEPT !.tagIDs = Append(@, ret.val.id)]
            /\ hist' = Append(hist, Resolved("tag", cmd.uploadTags[idx], TRUE, TRUE, ret.val.id))
            /\ idx' = idx + 1
            /\ pc' = "upload_tags"
            /\ UNCHANGED err
    /\ UNCHANGED <<cmd, client, config, doc, updates, tags, call, ret, inflight, reqs, resps, server, out, disk>>

\* a payload that carries the tag IDs with the first file only
UploadPayloadFirstOnly(f) ==
    [title |-> GoString(IF cmd.uploadTitle # "" THEN cmd.uploadTitle ELSE f.stem),
     correspondent |-> ids.correspondentID,
     document_type |-> ids.docTypeID,
     tags |-> GoIntSlice(IF idx = 1 THEN ids.tagIDs ELSE <<>>)]

\* the payload of one file: the title given, or the file name without its
\* extension, and the IDs resolved before the loop
UploadPayload(f) ==
    [title |-> GoString(IF cmd.uploadTitle # "" THEN cmd.uploadTitle ELSE f.stem),
     correspondent |-> ids.correspondentID,
     document_type |-> ids.docTypeID,
     tags |-> GoIntSlice(ids.tagIDs)]

\* a loop that passes over a file that failed and goes on with the next
UploadFileDoneContinue ==
    /\ Running("upload_sent")
    /\ IF ~ret.ok
       THEN /\ out' = out
            /\ err' = [ret.err EXCEPT !.msg = "upload failed"]
       ELSE /\ out' = IF cmd.jsonOutput
                      THEN Append(out, Line("json", idx, ret.val))
                      ELSE IF ~cmd.quietMode
                           THEN Append(out, Line("Uploaded", idx, ret.val))
                           ELSE out
            /\ UNCHANGED err
    /\ idx' = idx + 1
    /\ pc' = "upload_files"
    /\ UNCHANGED <<cmd, client, config, doc, updates, tags, ids, call, ret, inflight, reqs, resps, server, hist, disk>>

\* an upload loop that asks for the state of the task it has just started
UploadFileDonePoll ==
    /\ Running("upload_sent")
    /\ IF ~ret.ok
       THEN /\ Return([ret.err EXCEPT !.msg = "upload failed"])
            /\ UNCHANGED <<out, idx, call>>
       ELSE /\ out' = IF cmd.jsonOutput
                      THEN Append(out, Line("json", idx, ret.val))
                      ELSE IF ~cmd.quietMode
                           THEN Append(out, Line("Uploaded", idx, ret.val))
                           ELSE out
            /\ call' = Call("GetTask", "tasks", 0, ret.val, EmptyMap, NoFile)
            /\ idx' = idx + 1
            /\ pc' = "upload_files"
            /\ UNCHANGED err
    /\ UNCHANGED <<cmd, client, config, doc, updates, tags, ids, ret, inflight, reqs, resps, server, hist, disk>>

\* for _, filePath := range args: a file that does not exist ends the
\* command; otherwise the file is uploaded
UploadFile ==
    /\ Running("upload_files")
    /\ IF idx > Len(cmd.args)
       THEN /\ Return(NoErr)
            /\ UNCHANGED call
       ELSE LET f == cmd.files[cmd.args[idx]]
            IN  IF f.state = "missing"
                THEN /\ Return(CmdErr("file not found"))
                     /\ UNCHANGED call
                ELSE /\ call' = Call("UploadDocument", "documents", 0, <<>>,
                                     UploadPayload(f), f)
                     /\ pc' = "upload_sent"
                     /\ UNCHANGED err
    /\ UNCHANGED <<cmd, client, config, doc, updates, tags, idx, ids, ret, inflight, reqs, resps, server, out, hist, disk>>

\* UploadDocument returned: an error ends the command, a task ID is printed
UploadFileDone ==
    /\ Running("upload_sent")
    /\ IF ~ret.ok
       THEN /\ Return([ret.err EXCEPT !.msg = "upload failed"])
            /\ UNCHANGED <<out, idx>>
       ELSE /\ out' = IF cmd.jsonOutput
                      THEN Append(out, Line("json", idx, ret.val))
                      ELSE IF ~cmd.quietMode
                           THEN Append(out, Line("Uploaded", idx, ret.val))
                           ELSE out
            /\ idx' = idx + 1
            /\ pc' = "upload_files"
            /\ UNCHANGED err
    /\ UNCHANGED <<cmd, client, config, doc, updates, tags, ids, call, ret, inflight, reqs, resps, server, hist, disk>>

-----------------------------------------------------------------------------
(* documents delete *)

\* fmt.Scanln(&response) on the line typed: blanks are passed over and the
\* word up to the next blank is stored; what follows the word makes Scanln
\* return an error, which is not looked at
Scanln(line) ==
    LET s    == TrimLeft(line, {" ", "\t"})
        ends == {i \in 1..Len(s) : s[i] \in {" ", "\t"}}
    IN  IF ends = {} THEN s
        ELSE SubSeq(s, 1, (CHOOSE i \in ends : \A j \in ends : i <= j) - 1)

\* a confirmation that reads the answer in quiet mode too
confirmActionQuiet ==
    Scanln(cmd.answer) \in {<<"y">>, <<"Y">>, <<"y", "e", "s">>, <<"Y", "e", "s">>}

\* confirmAction: refused in quiet mode, else the answer read from stdin
confirmAction ==
    IF cmd.quietMode THEN FALSE
    ELSE Scanln(cmd.answer) \in {<<"y">>, <<"Y">>, <<"y", "e", "s">>, <<"Y", "e", "s">>}

\* a delete that goes ahead with the arguments before the first one that is
\* no integer
DeleteStartPrefix ==
    /\ Running("delete")
    /\ LET c      == getClient
           parsed == [i \in 1..Len(cmd.args) |-> Atoi(cmd.args[i])]
           bad    == {i \in 1..Len(parsed) : ~parsed[i].ok}
           n      == IF bad = {} THEN Len(parsed)
                     ELSE (CHOOSE i \in bad : \A j \in bad : i <= j) - 1
       IN  IF ~c.ok
           THEN /\ Return(c.err)
                /\ UNCHANGED <<ids, idx, out, client>>
           ELSE /\ ids' = [ids EXCEPT !.list = [i \in 1..n |-> parsed[i].val]]
                /\ idx' = 1
                /\ pc' = "delete_loop"
                /\ client' = c.client
                /\ UNCHANGED <<out, err>>
    /\ UNCHANGED <<cmd, config, doc, updates, tags, call, ret, inflight, reqs, resps, server, hist, disk>>

\* the Client is made, every argument is parsed, then the confirmation is
\* asked for
DeleteStart ==
    /\ Running("delete")
    /\ LET c      == getClient
           parsed == [i \in 1..Len(cmd.args) |-> Atoi(cmd.args[i])]
       IN  IF ~c.ok
           THEN /\ Return(c.err)
                /\ UNCHANGED <<ids, idx, out, client>>
           ELSE IF \E i \in 1..Len(parsed) : ~parsed[i].ok
           THEN /\ Return(CmdErr("invalid document ID"))
                /\ client' = c.client
                /\ UNCHANGED <<ids, idx, out>>
           ELSE IF ~cmd.deleteForce /\ ~confirmAction
           THEN /\ out' = Append(out, Line("Cancelled", 0, <<>>))
                /\ Return(NoErr)
                /\ client' = c.client
                /\ UNCHANGED <<ids, idx>>
           ELSE /\ ids' = [ids EXCEPT !.list = [i \in 1..Len(parsed) |-> parsed[i].val]]
                /\ idx' = 1
                /\ pc' = "delete_loop"
                /\ client' = c.client
                /\ UNCHANGED <<out, err>>
    /\ UNCHANGED <<cmd, config, doc, updates, tags, call, ret, inflight, reqs, resps, server, hist, disk>>

\* for _, id := range ids
DeleteNext ==
    /\ Running("delete_loop")
    /\ IF idx > Len(ids.list)
       THEN /\ Return(NoErr)
            /\ UNCHANGED call
       ELSE /\ call' = Call("Delete", "documents", ids.list[idx], <<>>, EmptyMap, NoFile)
            /\ pc' = "delete_sent"
            /\ UNCHANGED err
    /\ UNCHANGED <<cmd, client, config, doc, updates, tags, idx, ids, ret, inflight, reqs, resps, server, out, hist, disk>>

\* a loop that reports a failed delete and goes on with the next ID
DeleteDoneContinue ==
    /\ Running("delete_sent")
    /\ IF ~ret.ok
       THEN /\ err' = [ret.err EXCEPT !.msg = "failed to delete document"]
            /\ UNCHANGED out
       ELSE /\ out' = IF ~cmd.quietMode
                      THEN Append(out, Line("Deleted document", ids.list[idx], <<>>))
                      ELSE out
            /\ UNCHANGED err
    /\ idx' = idx + 1
    /\ pc' = "delete_loop"
    /\ UNCHANGED <<cmd, client, config, doc, updates, tags, ids, call, ret, inflight, reqs, resps, server, hist, disk>>

\* DeleteDocument returned: an error ends the command
DeleteDone ==
    /\ Running("delete_sent")
    /\ IF ~ret.ok
       THEN /\ Return([ret.err EXCEPT !.msg = "failed to delete document"])
            /\ UNCHANGED <<out, idx>>
       ELSE /\ out' = IF ~cmd.quietMode
                      THEN Append(out, Line("Deleted document", ids.list[idx], <<>>))
                      ELSE out
            /\ idx' = idx + 1
            /\ pc' = "delete_loop"
            /\ UNCHANGED err
    /\ UNCHANGED <<cmd, client, config, doc, updates, tags, ids, call, ret, inflight, reqs, resps, server, hist, disk>>

-----------------------------------------------------------------------------
(* documents list *)

\* api.DocumentListParams
DocumentListParams(query, names, corr, type, after, before, limit, page, order) ==
    [Query |-> query, Tags |-> names, Correspondent |-> corr,
     DocumentType |-> type, CreatedAfter |-> after, CreatedBefore |-> before,
     Limit |-> limit, Page |-> page, Ordering |-> order]

\* the parameters are taken from the flags, newest documents first
ListStart ==
    /\ Running("list")
    /\ IF ~getClient.ok
       THEN /\ Return(getClient.err)
            /\ UNCHANGED <<call, client>>
       ELSE /\ client' = getClient.client
            /\ call' = Call("ListDocuments", "documents", 0, <<>>,
                            DocumentListParams(cmd.listQuery, cmd.listTags,
                                               cmd.listCorrespondent, cmd.listDocType,
                                               cmd.listCreatedAfter, cmd.listCreatedBefore,
                                               cmd.listLimit, cmd.listPage,
                                               <<"-", "c", "r", "e", "a", "t", "e", "d">>),
                            NoFile)
            /\ pc' = "list_sent"
            /\ UNCHANGED err
    /\ UNCHANGED <<cmd, config, doc, updates, tags, idx, ids, ret, inflight, reqs, resps, server, out, hist, disk>>

\* ListDocuments returned: the page is printed as JSON or as a table (the
\* count line goes to standard error, not to out)
ListDone ==
    /\ Running("list_sent")
    /\ IF ~ret.ok
       THEN /\ Return(ret.err)
            /\ UNCHANGED out
       ELSE /\ Return(NoErr)
            /\ out' = IF cmd.jsonOutput
                      THEN Append(out, Line("json", ret.val.count, <<>>))
                      ELSE IF Len(ret.val.results) = 0
                      THEN Append(out, Line("No documents found", 0, <<>>))
                      ELSE out \o <<Line("ID TITLE CREATED TAGS", 0, <<>>)>>
                               \o [i \in 1..Len(ret.val.results) |->
                                      Line("row", ret.val.results[i].id, <<>>)]
    /\ UNCHANGED <<cmd, client, config, doc, updates, tags, idx, ids, call, ret, inflight, reqs, resps, server, hist, disk>>

-----------------------------------------------------------------------------
(* documents download *)

\* fmt.Sprintf("document_%d.pdf", id)
FallbackName(id) ==
    <<"d", "o", "c", "u", "m", "e", "n", "t", "_">> \o Itoa(id) \o <<".", "p", "d", "f">>

\* an output path without the fallback name
OutputPathNoFallback(output, filename, id) ==
    IF output # <<>> THEN output ELSE filename

\* the path the download is written to
OutputPath(output, filename, id) ==
    IF output # <<>> THEN output
    ELSE IF filename # <<>> THEN filename
    ELSE FallbackName(id)

\* the Client is made, args[0] is parsed and the file is asked for
DownloadStart ==
    /\ Running("download")
    /\ LET c  == getClient
           id == Atoi(cmd.args[1])
       IN  IF ~c.ok
           THEN /\ Return(c.err)
                /\ UNCHANGED <<call, client>>
           ELSE /\ client' = c.client
                /\ IF ~id.ok
                   THEN /\ Return(CmdErr("invalid document ID"))
                        /\ UNCHANGED call
                   ELSE /\ call' = Call("DownloadDocument", "documents", id.val, <<>>,
                                        [original |-> cmd.downloadOriginal], NoFile)
                        /\ pc' = "download_sent"
                        /\ UNCHANGED err
    /\ UNCHANGED <<cmd, config, doc, updates, tags, idx, ids, ret, inflight, reqs, resps, server, out, hist, disk>>

\* DownloadDocument returned: the data is written to the output path, which
\* the file system may refuse
DownloadDone ==
    /\ Running("download_sent")
    /\ IF ~ret.ok
       THEN /\ Return(ret.err)
            /\ UNCHANGED <<out, disk>>
       ELSE LET path == OutputPath(cmd.downloadOutput, ret.val.filename,
                                   Atoi(cmd.args[1]).val)
            IN  \/ /\ Return(CmdErr("failed to write file"))
                   /\ UNCHANGED <<out, disk>>
                \/ /\ disk' = Append(disk, [path |-> path, data |-> ret.val.data])
                   /\ out' = IF ~cmd.quietMode
                             THEN Append(out, Line("Downloaded to", Len(ret.val.data), path))
                             ELSE out
                   /\ Return(NoErr)
    /\ UNCHANGED <<cmd, client, config, doc, updates, tags, idx, ids, call, ret, inflight, reqs, resps, server, hist>>

-----------------------------------------------------------------------------
(* tasks status *)

\* args[0] is the task ID as typed
TasksStatusStart ==
    /\ Running("tasks_status")
    /\ IF ~getClient.ok
       THEN /\ Return(getClient.err)
            /\ UNCHANGED <<call, client>>
       ELSE /\ client' = getClient.client
            /\ call' = Call("GetTask", "tasks", 0, cmd.args[1], EmptyMap, NoFile)
            /\ pc' = "tasks_status_sent"
            /\ UNCHANGED err
    /\ UNCHANGED <<cmd, config, doc, updates, tags, idx, ids, ret, inflight, reqs, resps, server, out, hist, disk>>

\* GetTask returned: the task is printed, as JSON or field by field
TasksStatusDone ==
    /\ Running("tasks_status_sent")
    /\ IF ~ret.ok
       THEN /\ Return(ret.err)
            /\ UNCHANGED out
       ELSE /\ Return(NoErr)
            /\ out' = IF cmd.jsonOutput
                      THEN Append(out, Line("json", 0, ret.val.task_id))
                      ELSE Append(out, Line("Task ID", 0, ret.val.task_id))
    /\ UNCHANGED <<cmd, client, config, doc, updates, tags, idx, ids, call, ret, inflight, reqs, resps, server, hist, disk>>

-----------------------------------------------------------------------------
(* tags, correspondents, types: edit; and storage-paths too: delete *)

\* the Client is made, args[0] is parsed, the fields given are collected
\* (a colour for tags only) and sent; nothing to change is an error
KindEditStart ==
    /\ Running("kind_edit")
    /\ LET c  == getClient
           id == Atoi(cmd.args[1])
           n  == IF cmd.newName # "" THEN Put(EmptyMap, "name", GoString(cmd.newName))
                 ELSE EmptyMap
           u  == IF cmd.kind = "tags" /\ cmd.tagColor # ""
                 THEN Put(n, "color", GoString(cmd.tagColor)) ELSE n
       IN  IF ~c.ok
           THEN /\ Return(c.err)
                /\ UNCHANGED <<call, client, updates>>
           ELSE IF ~id.ok
           THEN /\ Return(CmdErr("invalid ID"))
                /\ client' = c.client
                /\ UNCHANGED <<call, updates>>
           ELSE IF DOMAIN u = {}
           THEN /\ Return(CmdErr("no changes specified"))
                /\ client' = c.client
                /\ updates' = u
                /\ UNCHANGED call
           ELSE /\ call' = Call("Update", cmd.kind, id.val, <<>>, u, NoFile)
                /\ client' = c.client
                /\ updates' = u
                /\ pc' = "kind_edit_sent"
                /\ UNCHANGED err
    /\ UNCHANGED <<cmd, config, doc, tags, idx, ids, ret, inflight, reqs, resps, server, out, hist, disk>>

\* UpdateTag, UpdateCorrespondent or UpdateDocumentType returned
KindEditDone ==
    /\ Running("kind_edit_sent")
    /\ IF ~ret.ok
       THEN /\ Return(ret.err)
            /\ UNCHANGED out
       ELSE /\ Return(NoErr)
            /\ out' = IF cmd.jsonOutput THEN Append(out, Line("json", ret.val.id, <<>>))
                      ELSE IF ~cmd.quietMode
                           THEN Append(out, Line("Updated", Atoi(cmd.args[1]).val, <<>>))
                           ELSE out
    /\ UNCHANGED <<cmd, client, config, doc, updates, tags, idx, ids, call, ret, inflight, reqs, resps, server, hist, disk>>

\* the Client is made, args[0] is parsed, the confirmation is asked for
\* unless --force is given, and the record is deleted
KindDeleteStart ==
    /\ Running("kind_delete")
    /\ LET c  == getClient
           id == Atoi(cmd.args[1])
       IN  IF ~c.ok
           THEN /\ Return(c.err)
                /\ UNCHANGED <<call, client, out>>
           ELSE IF ~id.ok
           THEN /\ Return(CmdErr("invalid ID"))
                /\ client' = c.client
                /\ UNCHANGED <<call, out>>
           ELSE IF ~cmd.force /\ ~confirmAction
           THEN /\ out' = Append(out, Line("Cancelled", 0, <<>>))
                /\ Return(NoErr)
                /\ client' = c.client
                /\ UNCHANGED call
           ELSE /\ call' = Call("Delete", cmd.kind, id.val, <<>>, EmptyMap, NoFile)
                /\ client' = c.client
                /\ pc' = "kind_delete_sent"
                /\ UNCHANGED <<out, err>>
    /\ UNCHANGED <<cmd, config, doc, updates, tags, idx, ids, ret, inflight, reqs, resps, server, hist, disk>>

\* DeleteTag, DeleteCorrespondent, DeleteDocumentType or DeleteStoragePath
\* returned
KindDeleteDone ==
    /\ Running("kind_delete_sent")
    /\ IF ~ret.ok
       THEN /\ Return(ret.err)
            /\ UNCHANGED out
       ELSE /\ Return(NoErr)
            /\ out' = IF ~cmd.quietMode
                      THEN Append(out, Line("Deleted", Atoi(cmd.args[1]).val, <<>>))
                      ELSE out
    /\ UNCHANGED <<cmd, client, config, doc, updates, tags, idx, ids, call, ret, inflight, reqs, resps, server, hist, disk>>

-----------------------------------------------------------------------------
(* config set-url, config set-token *)

\* the invocation that runs next: cmd.sets holds the invocations made one
\* after another, idx counts the ones that ended
ThisSet == cmd.sets[idx + 1]

\* the invocation ended with e; the next one, if any, may start
SetReturn(e) ==
    /\ err' = e
    /\ idx' = idx + 1
    /\ pc' = IF idx + 1 = Len(cmd.sets) THEN "done" ELSE "config"

\* config.SetURL(args[0]); "URL set to" unless quiet
runConfigSetURL ==
    /\ Running("config") /\ idx < Len(cmd.sets)
    /\ ThisSet.op = "set-url"
    /\ \E r \in SetURL(ThisSet.arg, config) :
           /\ config' = r.file
           /\ IF ~r.ok
              THEN /\ SetReturn(CmdErr("failed to save URL"))
                   /\ UNCHANGED out
              ELSE /\ SetReturn(NoErr)
                   /\ out' = IF ~cmd.quietMode
                             THEN Append(out, Line("URL set to", 0, ThisSet.arg))
                             ELSE out
    /\ UNCHANGED <<cmd, client, doc, updates, tags, ids, call, ret, inflight, reqs, resps, server, hist, disk>>

\* config.SetToken(args[0]); "Token saved" unless quiet
runConfigSetToken ==
    /\ Running("config") /\ idx < Len(cmd.sets)
    /\ ThisSet.op = "set-token"
    /\ \E r \in SetToken(ThisSet.arg, config) :
           /\ config' = r.file
           /\ IF ~r.ok
              THEN /\ SetReturn(CmdErr("failed to save token"))
                   /\ UNCHANGED out
              ELSE /\ SetReturn(NoErr)
                   /\ out' = IF ~cmd.quietMode
                             THEN Append(out, Line("Token saved", 0, <<>>))
                             ELSE out
    /\ UNCHANGED <<cmd, client, doc, updates, tags, ids, call, ret, inflight, reqs, resps, server, hist, disk>>

-----------------------------------------------------------------------------
(* a Client operation invoked on its own *)

Invoke ==
    /\ Running("api")
    /\ call' = cmd.api
    /\ pc' = "api_wait"
    /\ UNCHANGED <<cmd, client, config, doc, updates, tags, idx, ids, ret, inflight, reqs, resps, server, out, err, hist, disk>>

-----------------------------------------------------------------------------
(* Invocations and servers the model starts from *)

SeqsUpTo(S, n) == UNION {[1..k -> S] : k \in 0..n}

Rec(id, name) == [id |-> id, name |-> name]

\* "a" is part of "ab"; names are told apart by more than case
TagsPlain == <<Rec(2, <<"a">>), Rec(3, <<"a", "b">>)>>
\* two tags whose names differ only by case
TagsSameFold == <<Rec(3, <<"A">>), Rec(2, <<"a">>)>>
\* more tags than one page holds; the last one is the only "b"
TagsMany ==
    [i \in 1..(PageSize + 1) |->
        IF i = PageSize + 1 THEN Rec(7, <<"B">>) ELSE Rec(PageSize + i, <<"z">>)]

CorrTable == <<Rec(5, <<"a">>), Rec(6, <<"B">>)>>
TypeTable == <<Rec(8, <<"b">>)>>
PathTable == <<Rec(9, <<"a", "b">>), Rec(4, <<"A">>)>>

\* the writable scalar fields of a document as the service holds them
DocMeta ==
    [title |-> JString("old"), correspondent |-> JNumber(6),
     document_type |-> JNull, archive_serial_number |-> JNumber(3)]

Server(tagTable, docs) ==
    [tables |-> [k \in Kinds |->
                    CASE k = "tags" -> tagTable
                      [] k = "correspondents" -> CorrTable
                      [] k = "document_types" -> TypeTable
                      [] k = "storage_paths" -> PathTable],
     docs |-> docs,
     meta |-> [d \in DOMAIN docs |-> DocMeta],
     tasks |-> <<>>,
     shared |-> FALSE,
     foreign |-> <<>>,
     statuses |-> {500},
     garbles |-> FALSE,
     framings |-> {},
     disposition |-> <<>>]

NoFiles == [p \in {} |-> NoFile]

BaseCmd ==
    [name |-> "", args |-> <<>>, files |-> NoFiles, api |-> NoCall,
     editTitle |-> "", editCorrespondent |-> <<>>, editDocType |-> <<>>,
     editASN |-> 0, editAddTags |-> <<>>, editRemoveTags |-> <<>>,
     uploadTitle |-> "", uploadCorrespondent |-> <<>>, uploadDocType |-> <<>>,
     uploadTags |-> <<>>, deleteForce |-> FALSE, answer |-> <<>>,
     kind |-> "", newName |-> "", tagColor |-> "", force |-> FALSE,
     sets |-> <<>>,
     downloadOutput |-> <<>>, downloadOriginal |-> FALSE,
     listQuery |-> <<>>, listTags |-> <<>>, listCorrespondent |-> <<>>,
     listDocType |-> <<>>, listCreatedAfter |-> <<>>, listCreatedBefore |-> <<>>,
     listLimit |-> 25, listPage |-> 1,
     jsonOutput |-> FALSE, quietMode |-> FALSE,
     urlFlag |-> <<>>, envURL |-> <<"h">>, envToken |-> <<"k">>]

InitCall ==
    /\ doc = NoDoc
    /\ updates = EmptyMap
    /\ tags = {}
    /\ idx = 0
    /\ ids = NoIDs
    /\ call = NoCall
    /\ ret = Ok(Nil)
    /\ inflight = <<>>
    /\ reqs = <<>>
    /\ resps = <<>>
    /\ out = <<>>
    /\ err = NoErr
    /\ hist = <<>>
    /\ disk = <<>>

\* a command starts without a Client
InitLocals == InitCall /\ client = NoClient

\* tag tokens of documents edit: IDs, an ID written with a leading zero, a
\* name in another case than the tag's, a name no tag has
EditTagTokens == {<<"2">>, <<"4">>, <<"0", "2">>, <<"A">>, <<"x">>}

DocTagSets == {{}, {2}, {1, 2, 3}}

EditTagCmds ==
    {[BaseCmd EXCEPT !.name = "edit", !.args = <<<<"1">>>>,
                     !.editAddTags = a, !.editRemoveTags = r] :
        <<a, r>> \in {p \in SeqsUpTo(EditTagTokens, MaxTokens)
                              \X SeqsUpTo(EditTagTokens, MaxTokens) :
                         Len(p[1]) + Len(p[2]) <= MaxTokens}}

EditScalars ==
    {[t |-> "",  c |-> <<>>,       d |-> <<>>,       n |-> 0],
     [t |-> "T", c |-> <<>>,       d |-> <<>>,       n |-> 0],
     [t |-> "",  c |-> <<"a">>,    d |-> <<"-">>,    n |-> 0],
     [t |-> "",  c |-> <<"7">>,    d |-> <<"x">>,    n |-> 5],
     [t |-> "T", c |-> <<"x">>,    d |-> <<>>,       n |-> 0],
     [t |-> "",  c |-> <<"n", "o", "n", "e">>, d |-> <<"B">>, n |-> 0],
     [t |-> "",  c |-> <<>>,       d |-> <<"8">>,    n |-> 0 - 1],
     [t |-> "",  c |-> <<>>,       d |-> <<>>,       n |-> 0 - 1]}

EditScalarCmds ==
    {[BaseCmd EXCEPT !.name = "edit", !.args = <<arg>>, !.editTitle = s.t,
                     !.editCorrespondent = s.c, !.editDocType = s.d,
                     !.editASN = s.n, !.editAddTags = p[1],
                     !.editRemoveTags = p[2], !.jsonOutput = f[1],
                     !.quietMode = f[2]] :
        arg \in {<<"1">>, <<"9">>, <<"x">>}, s \in EditScalars,
        p \in {<<<<>>, <<>>>>, <<<<<<"A">>>>, <<>>>>, <<<<>>, <<<<"2">>>>>>},
        f \in {<<FALSE, FALSE>>, <<TRUE, FALSE>>, <<FALSE, TRUE>>}}

InitEdit ==
    /\ pc = "edit"
    /\ \/ /\ cmd \in EditTagCmds
          /\ server \in {Server(t, (1 :> c)) :
                            t \in {TagsPlain, TagsSameFold, <<>>}, c \in DocTagSets}
       \/ /\ cmd \in EditScalarCmds
          /\ server = Server(TagsPlain, (1 :> {1, 2}))
    /\ config = NoConfigFile
    /\ InitLocals

FileStates == {"ok", "missing", "unreadable"}

UploadArgs(n) == SubSeq(<<"f1", "f2", "f3", "f4", "f5">>, 1, n)

File(p, st) == [path |-> p, state |-> st, stem |-> p]

UploadBatchCmds ==
    {[BaseCmd EXCEPT !.name = "upload", !.args = UploadArgs(n),
                     !.files = [p \in Range(UploadArgs(n)) |-> File(p, st[p])],
                     !.uploadTags = t, !.jsonOutput = f[1], !.quietMode = f[2]] :
        n \in 1..MaxBatch, st \in [Range(UploadArgs(MaxBatch)) -> FileStates],
        t \in {<<>>, <<<<"A">>>>},
        f \in {<<FALSE, FALSE>>, <<TRUE, FALSE>>, <<FALSE, TRUE>>, <<TRUE, TRUE>>}}

UploadTagTokens == {<<"2">>, <<"A">>, <<"x">>}

UploadResolveCmds ==
    {[BaseCmd EXCEPT !.name = "upload", !.args = UploadArgs(2),
                     !.files = [p \in Range(UploadArgs(2)) |-> File(p, "ok")],
                     !.uploadTitle = ti, !.uploadCorrespondent = c,
                     !.uploadDocType = d, !.uploadTags = t] :
        ti \in {"", "T"}, c \in {<<>>, <<"5">>, <<"a">>, <<"x">>},
        d \in {<<>>, <<"8">>, <<"B">>, <<"x">>},
        t \in SeqsUpTo(UploadTagTokens, MaxTokens)}

InitUpload ==
    /\ pc = "upload"
    /\ cmd \in UploadBatchCmds \cup UploadResolveCmds
    /\ server = Server(TagsSameFold, (1 :> {}))
    /\ config = NoConfigFile
    /\ InitLocals

\* document IDs given to documents delete: two that exist, one that does
\* not, and one that is no number
DeleteArgs == {<<"1">>, <<"2">>, <<"7">>, <<"x">>}

DeleteCmds ==
    {[BaseCmd EXCEPT !.name = "delete", !.args = a, !.deleteForce = m[1],
                     !.quietMode = m[2], !.answer = m[3]] :
        a \in SeqsUpTo(DeleteArgs, MaxBatch) \ {<<>>},
        m \in {<<TRUE, FALSE, <<>>>>, <<TRUE, TRUE, <<>>>>, <<FALSE, FALSE, <<"y">>>>,
               <<FALSE, FALSE, <<"Y", "e", "s">>>>, <<FALSE, FALSE, <<"n">>>>,
               <<FALSE, FALSE, <<>>>>, <<FALSE, TRUE, <<"y">>>>,
               <<FALSE, FALSE, <<"y", " ", "n">>>>}}

InitDelete ==
    /\ pc = "delete"
    /\ cmd \in DeleteCmds
    /\ server = Server(TagsPlain, (1 :> {}) @@ (2 :> {2}) @@ (3 :> {}))
    /\ config = NoConfigFile
    /\ InitLocals

\* Content-Disposition headers a download may come with: none, a quoted
\* name, a bare name, an empty name, no name, a name followed by a parameter
Dispositions ==
    {<<>>,
     <<"a", ";", " ">> \o FilenameKey \o <<"\"", "i", ".", "p", "\"">>,
     <<"a", ";", " ">> \o FilenameKey \o <<"i", ".", "p">>,
     <<"a", ";", " ">> \o FilenameKey \o <<"\"", "\"">>,
     <<"i", "n", "l", "i", "n", "e">>,
     FilenameKey \o <<"\"", "i", ".", "p", "\"", ";", " ", "s", "=", "1">>}

DownloadCmds ==
    {[BaseCmd EXCEPT !.name = "download", !.args = <<a>>, !.downloadOutput = o,
                     !.downloadOriginal = g, !.quietMode = q] :
        a \in {<<"1">>, <<"9">>, <<"x">>}, o \in {<<>>, <<"o", "u", "t">>},
        g \in BOOLEAN, q \in BOOLEAN}

InitDownload ==
    /\ pc = "download"
    /\ cmd \in DownloadCmds
    /\ server \in {[Server(TagsPlain, (1 :> {})) EXCEPT
                        !.disposition = d, !.garbles = TRUE] : d \in Dispositions}
    /\ config = NoConfigFile
    /\ InitLocals

\* filters of documents list: each one given or not, a tag name that is
\* empty, a limit and a page that are not positive
ListTagNames == {<<"a">>, <<>>}

ListCmds ==
    {[BaseCmd EXCEPT !.name = "list", !.listQuery = q, !.listTags = t,
                     !.listCorrespondent = c, !.listDocType = d,
                     !.listCreatedAfter = r[1], !.listCreatedBefore = r[2],
                     !.listLimit = l, !.listPage = g, !.jsonOutput = j] :
        q \in {<<>>, <<"a", " ", "b">>}, t \in SeqsUpTo(ListTagNames, MaxTokens),
        c \in {<<>>, <<"a">>}, d \in {<<>>, <<"b">>},
        r \in {<<<<>>, <<>>>>, <<<<"2", "0", "2", "4">>, <<>>>>,
               <<<<>>, <<"2", "0", "2", "5">>>>},
        l \in {25, 0, 0 - 1}, g \in {1, 0}, j \in BOOLEAN}

InitList ==
    /\ pc = "list"
    /\ cmd \in ListCmds
    /\ server \in {Server(TagsPlain, (1 :> {}) @@ (2 :> {2})), Server(TagsPlain, <<>>)}
    /\ config = NoConfigFile
    /\ InitLocals

TasksStatusCmds ==
    {[BaseCmd EXCEPT !.name = "tasks status", !.args = <<a>>, !.jsonOutput = j] :
        a \in {<<"t", "1">>, <<"t", "2">>, <<"t", "9">>, <<>>}, j \in BOOLEAN}

\* services that hold no task, one task, or two tasks
InitTasksStatus ==
    /\ pc = "tasks_status"
    /\ cmd \in TasksStatusCmds
    /\ server \in {[Server(TagsPlain, (1 :> {})) EXCEPT
                        !.tasks = [i \in 1..n |->
                                     [task_id |-> <<"t", Digits[i + 1]>>,
                                      file |-> "f0", fields |-> EmptyMap]],
                        !.garbles = g] : n \in 0..2, g \in BOOLEAN}
    /\ config = NoConfigFile
    /\ InitLocals

ApiNames == {<<"a">>, <<"A">>, <<"b">>, <<"a", "b">>, <<"x">>, <<"z">>}

ApiCalls ==
    {Call("List", k, 0, <<>>, EmptyMap, NoFile) : k \in Kinds}
    \cup {Call("FindByName", k, 0, n, EmptyMap, NoFile) : k \in Kinds, n \in ApiNames}
    \cup {Call("ListDocuments", "documents", 0, <<>>,
               DocumentListParams(q, n, <<>>, <<>>, <<>>, <<>>, l, 0, <<>>), NoFile) :
             q \in {<<>>, <<"a">>}, n \in {<<>>, <<<<"a">>, <<>>>>}, l \in {0, 25}}
    \cup {Call("Get", k, i, <<>>, EmptyMap, NoFile) :
             k \in Kinds \cup {"documents"}, i \in {1, 2, 9}}
    \cup {Call("Create", k, 0, <<>>, [name |-> GoString("N")], NoFile) : k \in Kinds}
    \cup {Call("Update", k, i, <<>>, [name |-> GoString("N")], NoFile) :
             k \in Kinds, i \in {2, 9}}
    \cup {Call("Update", "documents", i, <<>>, p, NoFile) :
             i \in {1, 9},
             p \in {[title |-> GoString("T")], [tags |-> GoIntSlice(<<3, 1>>)],
                    [tags |-> GoNilSlice]}}
    \cup {Call("Delete", k, i, <<>>, EmptyMap, NoFile) :
             k \in Kinds \cup {"documents"}, i \in {1, 2, 9}}
    \cup {Call("UploadDocument", "documents", 0, <<>>,
               [title |-> GoString("T"), correspondent |-> c,
                document_type |-> Nil, tags |-> GoIntSlice(t)],
               File("f1", st)) :
             c \in {Nil, GoInt(5)}, t \in {<<>>, <<2, 3>>}, st \in FileStates}
    \cup {Call("DownloadDocument", "documents", i, <<>>, [original |-> o], NoFile) :
             i \in {1, 9}, o \in BOOLEAN}
    \cup {Call("GetTask", "tasks", 0, n, EmptyMap, NoFile) : n \in {<<"t", "1">>, <<"t", "9">>}}

\* statuses a service may answer with besides the regular one
ApiStatuses == {201, 202, 204, 302, 400, 500}

\* what a service may put around a text body
ApiFramings ==
    {[pre |-> <<" ">>, post |-> <<"\n">>], [pre |-> <<>>, post |-> <<"\r", "\n">>],
     [pre |-> <<"\t">>, post |-> <<>>]}

ApiServers ==
    {[s EXCEPT !.statuses = ApiStatuses, !.garbles = TRUE, !.framings = ApiFramings,
               !.disposition = d] :
        d \in {<<>>, <<"a", ";", " ">> \o FilenameKey \o <<"\"", "i", ".", "p", "\"">>},
        s \in {Server(t, (1 :> {1, 2})) : t \in {TagsPlain, TagsSameFold, TagsMany}}
               \cup {[Server(TagsPlain, (1 :> {})) EXCEPT
                         !.tasks = <<[task_id |-> <<"t", "1">>, file |-> "f0",
                                      fields |-> EmptyMap],
                                     [task_id |-> <<"t", "1">>, file |-> "f1",
                                      fields |-> EmptyMap]>>]}}

\* config files a command may find: none; url and token; no token; a null
\* url and a token of digits; an empty url; a file that cannot be read; a
\* file that is no YAML; a sequence where the token or the url belongs
ConfigFiles ==
    {NoConfigFile,
     ConfigFile(TRUE, TRUE, Plain(<<"c">>), Plain(<<"s">>)),
     ConfigFile(TRUE, TRUE, Plain(<<"c">>), YAbsent),
     ConfigFile(TRUE, TRUE, YNull, Quoted(<<"7">>)),
     ConfigFile(TRUE, TRUE, Quoted(<<>>), Plain(<<"s">>)),
     ConfigFile(FALSE, TRUE, Plain(<<"c">>), Plain(<<"s">>)),
     ConfigFile(TRUE, FALSE, Plain(<<"c">>), Plain(<<"s">>)),
     ConfigFile(TRUE, TRUE, Plain(<<"c">>), YSeq),
     ConfigFile(TRUE, TRUE, YSeq, Plain(<<"s">>))}

\* one invocation of each command, to be run under every choice of --url,
\* PAPERLESS_URL, PAPERLESS_TOKEN and config file
CredentialCmds ==
    {[BaseCmd EXCEPT !.name = "edit", !.args = <<<<"1">>>>, !.editTitle = "T"],
     [BaseCmd EXCEPT !.name = "upload", !.args = UploadArgs(1),
                     !.files = [p \in Range(UploadArgs(1)) |-> File(p, "ok")]],
     [BaseCmd EXCEPT !.name = "delete", !.args = <<<<"1">>>>, !.deleteForce = TRUE],
     [BaseCmd EXCEPT !.name = "list"],
     [BaseCmd EXCEPT !.name = "download", !.args = <<<<"1">>>>],
     [BaseCmd EXCEPT !.name = "tasks status", !.args = <<<<"t", "1">>>>]}

StartLabel(name) ==
    CASE name = "tasks status" -> "tasks_status"
      [] name = "kind edit"    -> "kind_edit"
      [] name = "kind delete"  -> "kind_delete"
      [] OTHER                 -> name

InitCredentials ==
    /\ cmd \in {[c EXCEPT !.urlFlag = u, !.envURL = e, !.envToken = t] :
                   c \in CredentialCmds, u \in {<<>>, <<"f">>, <<"f", "/">>},
                   e \in {<<>>, <<"e">>}, t \in {<<>>, <<"t">>}}
    /\ pc = StartLabel(cmd.name)
    /\ config \in ConfigFiles
    /\ server = Server(TagsPlain, (1 :> {2}))
    /\ InitLocals

\* what is typed at the confirmation prompt: nothing, a yes in four
\* spellings, a no, a yes in capitals, a yes after a blank, a yes followed
\* by more words
AnswerLines ==
    {<<>>, <<"y">>, <<"Y">>, <<"y", "e", "s">>, <<"Y", "e", "s">>, <<"n">>,
     <<"Y", "E", "S">>, <<" ", "y">>, <<"y", " ", "n">>, <<"y", "e", "s", ",">>}

\* tags, correspondents, document-types and storage-paths delete
KindDeleteCmds ==
    {[BaseCmd EXCEPT !.name = "kind delete", !.kind = k, !.args = <<a>>,
                     !.force = m[1], !.quietMode = m[2], !.answer = m[3]] :
        k \in Kinds, a \in {<<"2">>, <<"1">>, <<"x">>},
        m \in {<<TRUE, FALSE, <<>>>>, <<TRUE, TRUE, <<>>>>, <<FALSE, TRUE, <<"y">>>>}
               \cup {<<FALSE, FALSE, l>> : l \in AnswerLines}}

InitKindDelete ==
    /\ pc = "kind_delete"
    /\ cmd \in KindDeleteCmds
    /\ server = Server(TagsPlain, (1 :> {2}))
    /\ config = NoConfigFile
    /\ InitLocals

\* tags, correspondents and document-types edit
KindEditCmds ==
    {[BaseCmd EXCEPT !.name = "kind edit", !.kind = k, !.args = <<a>>,
                     !.newName = n, !.tagColor = c, !.jsonOutput = f[1],
                     !.quietMode = f[2]] :
        k \in Kinds \ {"storage_paths"}, a \in {<<"2">>, <<"1">>, <<"x">>},
        n \in {"", "N"}, c \in {"", "#f00"},
        f \in {<<FALSE, FALSE>>, <<TRUE, FALSE>>, <<FALSE, TRUE>>}}

InitKindEdit ==
    /\ pc = "kind_edit"
    /\ cmd \in {c \in KindEditCmds : c.kind = "tags" \/ c.tagColor = ""}
    /\ server = Server(TagsPlain, (1 :> {2}))
    /\ config = NoConfigFile
    /\ InitLocals

\* one invocation of config set-url or config set-token: a URL, the empty
\* URL, a token, a token of digits
ConfigSets ==
    {[op |-> "set-url", arg |-> <<"u">>], [op |-> "set-url", arg |-> <<>>],
     [op |-> "set-token", arg |-> <<"t">>], [op |-> "set-token", arg |-> <<"7">>]}

ConfigCmds ==
    {[BaseCmd EXCEPT !.name = "config", !.sets = s, !.quietMode = q] :
        s \in SeqsUpTo(ConfigSets, MaxSets) \ {<<>>}, q \in BOOLEAN}

InitConfig ==
    /\ pc = "config"
    /\ cmd \in ConfigCmds
    /\ server = Server(TagsPlain, (1 :> {2}))
    /\ config \in ConfigFiles
    /\ InitLocals

\* documents edit on a document that another client edits too
SharedCmds ==
    {[BaseCmd EXCEPT !.name = "edit", !.args = <<<<"1">>>>,
                     !.editAddTags = p[1], !.editRemoveTags = p[2]] :
        p \in {<<<<<<"4">>>>, <<>>>>, <<<<<<"A">>>>, <<<<"3">>>>>>,
               <<<<>>, <<<<"a", "b">>>>>>, <<<<<<"x">>>>, <<>>>>}}

InitShared ==
    /\ pc = "edit"
    /\ cmd \in SharedCmds
    /\ server \in {[Server(TagsPlain, (1 :> c)) EXCEPT !.shared = TRUE] : c \in DocTagSets}
    /\ config = NoConfigFile
    /\ InitLocals

InitClient ==
    /\ pc = "api"
    /\ cmd \in {[BaseCmd EXCEPT !.name = "api", !.api = c] : c \in ApiCalls}
    /\ server \in ApiServers
    /\ config = NoConfigFile
    /\ client = NewClient(<<"h", "/">>, <<"k">>)
    /\ InitCall

Init ==
    \/ InitEdit \/ InitUpload \/ InitDelete \/ InitDownload \/ InitList
    \/ InitTasksStatus \/ InitClient \/ InitCredentials \/ InitShared
    \/ InitKindDelete \/ InitKindEdit \/ InitConfig

-----------------------------------------------------------------------------
(* Specifications *)

NextEdit ==
    \/ EditStart \/ EditGot
    \/ EditCorrespondent \/ EditCorrespondentFound
    \/ EditDocType \/ EditDocTypeFound
    \/ EditASN
    \/ EditAddTag \/ EditAddTagFound
    \/ EditRemoveTag \/ EditRemoveTagFound
    \/ EditUpdate \/ EditDone
    \/ ClientSend \/ ClientRecv

NextUpload ==
    \/ UploadCorrespondent \/ UploadCorrespondentFound
    \/ UploadDocType \/ UploadDocTypeFound
    \/ UploadTag \/ UploadTagFound
    \/ UploadFile \/ UploadFileDone
    \/ ClientSend \/ ClientRecv

NextDelete ==
    \/ DeleteStart \/ DeleteNext \/ DeleteDone
    \/ ClientSend \/ ClientRecv

NextDownload ==
    \/ DownloadStart \/ DownloadDone
    \/ ClientSend \/ ClientRecv

NextList ==
    \/ ListStart \/ ListDone
    \/ ClientSend \/ ClientRecv

NextTasksStatus ==
    \/ TasksStatusStart \/ TasksStatusDone
    \/ ClientSend \/ ClientRecv

NextKindEdit ==
    \/ KindEditStart \/ KindEditDone
    \/ ClientSend \/ ClientRecv

NextKindDelete ==
    \/ KindDeleteStart \/ KindDeleteDone
    \/ ClientSend \/ ClientRecv

NextConfig == runConfigSetURL \/ runConfigSetToken

NextClient == Invoke \/ ClientSend \/ ClientRecv

Next ==
    \/ EditStart \/ EditGot
    \/ EditCorrespondent \/ EditCorrespondentFound
    \/ EditDocType \/ EditDocTypeFound
    \/ EditASN
    \/ EditAddTag \/ EditAddTagFound
    \/ EditRemoveTag \/ EditRemoveTagFound
    \/ EditUpdate \/ EditDone
    \/ UploadCorrespondent \/ UploadCorrespondentFound
    \/ UploadDocType \/ UploadDocTypeFound
    \/ UploadTag \/ UploadTagFound
    \/ UploadFile \/ UploadFileDone
    \/ DeleteStart \/ DeleteNext \/ DeleteDone
    \/ DownloadStart \/ DownloadDone
    \/ ListStart \/ ListDone
    \/ TasksStatusStart \/ TasksStatusDone
    \/ KindEditStart \/ KindEditDone
    \/ KindDeleteStart \/ KindDeleteDone
    \/ runConfigSetURL \/ runConfigSetToken
    \/ Invoke
    \/ ClientSend \/ ClientRecv
    \/ OtherClient

SpecEdit == InitEdit /\ [][NextEdit]_vars
SpecUpload == InitUpload /\ [][NextUpload]_vars
SpecDelete == InitDelete /\ [][NextDelete]_vars
SpecDownload == InitDownload /\ [][NextDownload]_vars
SpecList == InitList /\ [][NextList]_vars
SpecTasksStatus == InitTasksStatus /\ [][NextTasksStatus]_vars
SpecKindEdit == InitKindEdit /\ [][NextKindEdit]_vars
SpecKindDelete == InitKindDelete /\ [][NextKindDelete]_vars
SpecConfig == InitConfig /\ [][NextConfig]_vars
SpecClient == InitClient /\ [][NextClient]_vars
Spec == Init /\ [][Next]_vars

-----------------------------------------------------------------------------
(* Properties *)

\* lower-casing as the properties understand it, written out letter by letter
LowerOf(c) ==
    CASE c = "A" -> "a" [] c = "B" -> "b" [] c = "X" -> "x" [] OTHER -> c

SameNameIgnoringCase(s, t) ==
    [i \in 1..Len(s) |-> LowerOf(s[i])] = [i \in 1..Len(t) |-> LowerOf(t[i])]

\* the tokens of the model that are base-10 integers, and their values
DecimalTokens ==
    {<<"1">>, <<"2">>, <<"3">>, <<"4">>, <<"5">>, <<"7">>, <<"8">>, <<"9">>,
     <<"0", "2">>}

DecimalValue(tok) ==
    CASE tok = <<"1">> -> 1 [] tok = <<"2">> -> 2 [] tok = <<"4">> -> 4
      [] tok = <<"3">> -> 3
      [] tok = <<"5">> -> 5 [] tok = <<"7">> -> 7 [] tok = <<"8">> -> 8
      [] tok = <<"9">> -> 9 [] tok = <<"0", "2">> -> 2

\* the IDs a token stands for on the server: the integer itself, or the ID
\* of the first record of the table that has the name (none if no record has)
WantedID(table, tok) ==
    IF tok \in DecimalTokens THEN {DecimalValue(tok)}
    ELSE LET hits == {i \in 1..Len(table) : SameNameIgnoringCase(table[i].name, tok)}
         IN  IF hits = {} THEN {}
             ELSE {table[CHOOSE i \in hits : \A j \in hits : i <= j].id}

WantedIDs(table, toks) == UNION {WantedID(table, toks[j]) : j \in 1..Len(toks)}

\* the PATCH requests sent that carry a tags member
TagPatches ==
    {i \in 1..Len(reqs) : reqs[i].method = "PATCH" /\ "tags" \in DOMAIN reqs[i].body.json}

TagsSent(i) == Range(reqs[i].body.json["tags"].a)

IsListRequest(r) == r.method = "GET" /\ r.res \in Kinds /\ r.id = 0

ApiDone == pc = "api_wait" /\ call.op = "none"

FindDone == ApiDone /\ cmd.api.op = "FindByName"

\* the List request of the operation was answered with 200 and a list
\* that decodes
ListAnswered ==
    /\ Len(resps) = 1 /\ ~resps[1].failed
    /\ resps[1].status = 200 /\ resps[1].body.k = "page"

\* C1: the tags sent in the PATCH of documents edit are (C union the IDs of
\* the add tokens) minus the IDs of the remove tokens, C being the tags
\* GetDocument returned; a remove name that no tag has contributes nothing.
C1_Reconcile ==
    \A i \in TagPatches :
        TagsSent(i) = (Range(doc.tags) \cup WantedIDs(server.tables["tags"], cmd.editAddTags))
                         \ WantedIDs(server.tables["tags"], cmd.editRemoveTags)

\* C2: a tag that is named in both the add list and the remove list (by ID
\* or by name) is never among the tags sent.
C2_AddThenRemove ==
    \A i \in TagPatches :
        \A a \in Range(cmd.editAddTags), r \in Range(cmd.editRemoveTags) :
            LET wa == WantedID(server.tables["tags"], a)
                wr == WantedID(server.tables["tags"], r)
            IN  wa # {} /\ wa = wr => wa \cap TagsSent(i) = {}

\* C3: a remove token is passed over exactly when no tag has its name; a
\* token that names a tag has that tag's ID deleted from the set.
C3_SkipOnlyMissing ==
    \A j \in 1..Len(hist) :
        hist[j].phase = "remove" =>
            /\ ~hist[j].ok <=> WantedID(server.tables["tags"], hist[j].token) = {}
            /\ hist[j].ok => {hist[j].id} = WantedID(server.tables["tags"], hist[j].token)

\* the tokens an edit or upload invocation asks to resolve
TokensGiven ==
    IF cmd.name = "edit"
    THEN <<cmd.editCorrespondent, cmd.editDocType>> \o cmd.editAddTags \o cmd.editRemoveTags
    ELSE <<cmd.uploadCorrespondent, cmd.uploadDocType>> \o cmd.uploadTags

\* C4: in documents edit and documents upload, a tag, correspondent or
\* document-type token that is a base-10 integer resolves to that integer
\* and causes no List request: there are never more List requests than
\* tokens that are not integers.
C4_NumericNoList ==
    cmd.name \in {"edit", "upload"} =>
        /\ \A j \in 1..Len(hist) :
              hist[j].token \in DecimalTokens =>
                  /\ hist[j].ok
                  /\ ~hist[j].listed
                  /\ hist[j].id = DecimalValue(hist[j].token)
        /\ Cardinality({i \in 1..Len(reqs) : IsListRequest(reqs[i])})
              <= Cardinality({j \in 1..Len(TokensGiven) :
                                 TokensGiven[j] \notin DecimalTokens \cup {<<>>}})

\* an upload whose tokens were all integers ran to its end without a List request
C4_Witness ==
    /\ cmd.name = "upload" /\ pc = "done" /\ err = NoErr
    /\ Len(hist) = 3
    /\ \A j \in 1..Len(hist) : hist[j].token \in DecimalTokens
    /\ Len(reqs) > 0
    /\ \A i \in 1..Len(reqs) : ~IsListRequest(reqs[i])

\* C5: a name resolves to the first record of the List response whose name
\* equals it ignoring case, and it does resolve when the response holds one;
\* a record whose name only contains the token, or is contained in it, is
\* passed over.
C5_FirstMatch ==
    FindDone /\ ListAnswered =>
        LET page == resps[1].body.results
            hits == {i \in 1..Len(page) : SameNameIgnoringCase(page[i].name, cmd.api.name)}
        IN  /\ ret.ok <=> hits # {}
            /\ ret.ok => \E i \in hits : /\ ret.val = page[i]
                                         /\ \A j \in hits : i <= j

\* "a" was looked up among the storage paths <<"ab", "A">>: "ab" was passed over
C5_Witness ==
    /\ FindDone /\ ListAnswered
    /\ cmd.api.kind = "storage_paths" /\ cmd.api.name = <<"a">>
    /\ ret.ok /\ ret.val.id = 4

\* C6: whenever the server holds a record with the name and the List request
\* succeeds, the name resolves to a record with that name, however many
\* records there are, with one List request.
C6_AllRecords ==
    FindDone /\ ListAnswered
      /\ (\E i \in 1..Len(server.tables[cmd.api.kind]) :
              SameNameIgnoringCase(server.tables[cmd.api.kind][i].name, cmd.api.name))
    => /\ ret.ok
       /\ SameNameIgnoringCase(ret.val.name, cmd.api.name)
       /\ Len(reqs) = 1

NoRecordNamed ==
    \A i \in 1..Len(server.tables[cmd.api.kind]) :
        ~SameNameIgnoringCase(server.tables[cmd.api.kind][i].name, cmd.api.name)

\* C7 as stated: resolving a name that no record has always fails with a
\* not-found error.
C7_AlwaysNotFound ==
    FindDone /\ NoRecordNamed => ~ret.ok /\ ret.err.msg = "not found"

\* C7: for every kind, resolving a name that no record has always fails and
\* never returns a record; the error is the not-found error when the List
\* request was answered with 200 and a list that decodes, else the error
\* of the List request (transport, status or decoding).
C7_NotFound ==
    FindDone /\ NoRecordNamed =>
        /\ ~ret.ok
        /\ IF ListAnswered THEN ret.err.msg = "not found"
           ELSE ret.err.msg \in {"transport", "API error", "decode"}

\* a name no storage path has came back as not found
C7_Witness ==
    /\ FindDone /\ NoRecordNamed /\ ListAnswered
    /\ cmd.api.kind = "storage_paths"
    /\ ~ret.ok /\ ret.err.msg = "not found"

\* a batch upload ended at file idx (that file failed, or does not exist)
UploadAborted ==
    cmd.name = "upload" /\ pc = "done" /\ err.msg \in {"upload failed", "file not found"}

\* the task IDs of the files before idx have been printed, in order
TasksReported ==
    /\ Len(out) = idx - 1
    /\ \A j \in 1..(idx - 1) : out[j].id = j /\ out[j].task = server.tasks[j].task_id

\* no upload request beyond file idx, none repeated, the earlier uploads
\* still on the server, nothing deleted
UploadStoppedAt ==
    /\ \A i \in 1..Len(reqs) :
          reqs[i].method = "POST" => reqs[i].body.file \in {cmd.args[j] : j \in 1..idx}
    /\ Cardinality({i \in 1..Len(reqs) : reqs[i].method = "POST"}) <= idx
    /\ Len(server.tasks) = idx - 1
    /\ \A j \in 1..(idx - 1) : server.tasks[j].file = cmd.args[j]
    /\ \A i \in 1..Len(reqs) : reqs[i].method # "DELETE"

\* C8 as stated: when the upload of file k fails, the task IDs of files
\* 1..k-1 have been reported, the error is returned, no request was sent for
\* the files after k and nothing is undone.
C8_AbortReported == UploadAborted => TasksReported /\ UploadStoppedAt

\* C8: as above, the task IDs being reported unless --quiet is given without
\* --json, in which case nothing is printed.
C8_Abort ==
    UploadAborted =>
        /\ IF cmd.jsonOutput \/ ~cmd.quietMode THEN TasksReported ELSE out = <<>>
        /\ UploadStoppedAt

\* three files, the second failed at the server: one task ID printed, the
\* third file readable and never sent
C8_Witness ==
    /\ UploadAborted /\ err.msg = "upload failed"
    /\ Len(cmd.args) = 3 /\ idx = 2
    /\ cmd.files["f2"].state = "ok" /\ cmd.files["f3"].state = "ok"
    /\ Len(out) = 1 /\ Len(resps) = 2 /\ resps[2].status = 500

DeleteAborted ==
    cmd.name = "delete" /\ pc = "done" /\ err.msg = "failed to delete document"

\* DELETE requests were sent for the first idx arguments, in order, and for
\* no other; the documents before idx are gone from the server
DeleteStoppedAt ==
    /\ Len(reqs) = idx
    /\ \A j \in 1..idx :
          reqs[j].method = "DELETE" /\ reqs[j].id = DecimalValue(cmd.args[j])
    /\ \A j \in 1..(idx - 1) : DecimalValue(cmd.args[j]) \notin DOMAIN server.docs

DeletesReported ==
    /\ Len(out) = idx - 1
    /\ \A j \in 1..(idx - 1) :
          out[j].msg = "Deleted document" /\ out[j].id = DecimalValue(cmd.args[j])

\* a DELETE that the server refused, or that never reached it, is the last
\* request of the command
NoDeleteAfterFailure ==
    cmd.name = "delete" =>
        \A j \in 1..Len(resps) :
            (resps[j].failed \/ resps[j].status \notin {200, 204}) => Len(reqs) = j

\* C9 as stated: when deleting item K fails, items 1..K-1 stay deleted, each
\* has been reported as deleted, and no DELETE is sent for the items after K.
C9_AbortReported ==
    /\ NoDeleteAfterFailure
    /\ DeleteAborted => DeleteStoppedAt /\ DeletesReported

\* C9: as above, each deletion being reported unless --quiet is given, in
\* which case nothing is printed.
C9_Abort ==
    /\ NoDeleteAfterFailure
    /\ DeleteAborted =>
           /\ DeleteStoppedAt
           /\ IF cmd.quietMode THEN out = <<>> ELSE DeletesReported

\* three documents, the second delete failed at the server
C9_Witness ==
    /\ DeleteAborted
    /\ cmd.args = <<<<"1">>, <<"2">>, <<"1">>>> /\ idx = 2
    /\ Len(out) = 1 /\ resps[2].status = 500
    /\ 1 \notin DOMAIN server.docs /\ 2 \in DOMAIN server.docs

TagListRequests ==
    {i \in 1..Len(reqs) : IsListRequest(reqs[i]) /\ reqs[i].res = "tags"}

\* the tag tokens taken up so far that are not integers: those resolved or
\* given up, and the one whose List request is out
NamedTagTokens ==
    Cardinality({j \in 1..Len(hist) :
                    /\ hist[j].phase \in {"add", "remove", "tag"}
                    /\ hist[j].token \notin DecimalTokens})
    + (IF pc \in {"edit_add_find", "edit_remove_find", "upload_tag_find"}
          /\ call.phase # "start"
       THEN 1 ELSE 0)

\* C11: in documents edit and documents upload every tag token that is not
\* an integer costs exactly one List request of its own, nothing being kept
\* from one token to the next: the tag List requests sent are as many as
\* the non-integer tag tokens taken up, a repeated name included.
C11_OneListPerToken ==
    cmd.name \in {"edit", "upload"} =>
        Cardinality(TagListRequests) = NamedTagTokens

\* the same name was given twice to --add-tag and was listed twice
C11_Witness ==
    /\ cmd.name = "edit" /\ pc = "done" /\ err = NoErr
    /\ cmd.editAddTags = <<<<"A">>, <<"A">>>>
    /\ Cardinality(TagListRequests) = 2
    /\ Len(hist) = 2 /\ hist[1].ok /\ hist[2].ok /\ hist[1].id = hist[2].id

\* the operation invoked has returned after a response to its request came in
Received(op) ==
    /\ ApiDone /\ cmd.api.op = op
    /\ Len(resps) = 1 /\ ~resps[1].failed

Is2xx(status) == status >= 200 /\ status <= 299

\* the error is an API error with the status and the body of the response
CarriesResponse(msg) ==
    /\ ~ret.ok /\ ret.err.msg = msg
    /\ ret.err.status = resps[1].status /\ ret.err.body = resps[1].body

\* C12 as stated: Get fails exactly on 404 (not found) and on any other
\* non-2xx status (API error with status and body); otherwise it returns
\* the decoded record.
C12_ErrorsOnNon2xx ==
    Received("Get") =>
        IF resps[1].status = 404 THEN ~ret.ok /\ ret.err.msg = "not found"
        ELSE IF ~Is2xx(resps[1].status) THEN CarriesResponse("API error")
        ELSE ret.ok /\ ret.val = resps[1].body.rec

\* C12: Get, for every kind, answers a received response with a not-found
\* error on 404, with an API error carrying status and body on every other
\* status than 200, and on 200 with the decoded record, or with the
\* decoder's error when the body does not decode.
C12_GetErrors ==
    Received("Get") =>
        IF resps[1].status = 404 THEN ~ret.ok /\ ret.err.msg = "not found"
        ELSE IF resps[1].status # 200 THEN CarriesResponse("API error")
        ELSE IF resps[1].body.k = "record" THEN ret.ok /\ ret.val = resps[1].body.rec
        ELSE ~ret.ok /\ ret.err.msg = "decode"

\* a tag was asked for and the answer came with 204: an API error
C12_Witness ==
    /\ Received("Get") /\ cmd.api.kind = "tags"
    /\ resps[1].status = 204 /\ resps[1].body.k = "record"
    /\ CarriesResponse("API error")

\* C13 as stated: Update fails with an API error carrying status and body
\* if and only if the response status is non-2xx; on a 2xx response it
\* returns the updated record.
C13_FailsIffNon2xx ==
    Received("Update") =>
        IF Is2xx(resps[1].status) THEN ret.ok /\ ret.val = resps[1].body.rec
        ELSE CarriesResponse("update failed")

\* C13: Update, for every kind, fails with an API error carrying status and
\* body if and only if the response status is not 200; on 200 it returns
\* the updated record, or the decoder's error when the body does not decode.
C13_UpdateErrors ==
    Received("Update") =>
        /\ resps[1].status # 200 <=> CarriesResponse("update failed")
        /\ resps[1].status = 200 =>
              IF resps[1].body.k = "record"
              THEN ret.ok /\ ret.val = resps[1].body.rec
              ELSE ~ret.ok /\ ret.err.msg = "decode"

\* a tag was renamed, the answer came with 202: update failed 202
C13_Witness ==
    /\ Received("Update") /\ cmd.api.kind = "tags"
    /\ resps[1].status = 202 /\ resps[1].body.k = "record"
    /\ CarriesResponse("update failed")

\* s without the characters of cut at its two ends
Stripped(s, cut) ==
    LET keep == {i \in 1..Len(s) : s[i] \notin cut}
    IN  IF keep = {} THEN <<>>
        ELSE SubSeq(s, CHOOSE i \in keep : \A j \in keep : i <= j,
                       CHOOSE i \in keep : \A j \in keep : j <= i)

\* C14 as stated: UploadDocument takes 200, 201 and 202 as success and
\* returns the body without the white space and quotes around it; any other
\* status is an error carrying status and body, and no task handle.
C14_StripsWhitespace ==
    Received("UploadDocument") =>
        IF resps[1].status \in {200, 201, 202}
        THEN ret.ok /\ ret.val = Stripped(resps[1].body.text, {"\"", " ", "\n", "\t", "\r"})
        ELSE CarriesResponse("upload failed") /\ ret.val = Nil

\* C14: UploadDocument takes 200, 201 and 202 as success and returns the
\* body without the double quotes, spaces and line feeds around it (a tab
\* or a carriage return stays and stops the stripping); any other status
\* is an error carrying status and body, and no task handle.
C14_Upload ==
    Received("UploadDocument") =>
        IF resps[1].status \in {200, 201, 202}
        THEN ret.ok /\ ret.val = Stripped(resps[1].body.text, {"\"", " ", "\n"})
        ELSE CarriesResponse("upload failed") /\ ret.val = Nil

\* the handle came in quotes between a space and a line feed
C14_Witness ==
    /\ Received("UploadDocument")
    /\ resps[1].status = 200
    /\ resps[1].body.text = <<" ", "\"", "t", "1", "\"", "\n">>
    /\ ret.ok /\ ret.val = <<"t", "1">>

\* the file name each Content-Disposition header of the model asserts: the
\* text after filename= without the quotes around it, nothing when the
\* header or the parameter is missing
NameAsserted(cd) ==
    CASE cd = <<"a", ";", " ", "f", "i", "l", "e", "n", "a", "m", "e", "=",
                "\"", "i", ".", "p", "\"">> -> <<"i", ".", "p">>
      [] cd = <<"a", ";", " ", "f", "i", "l", "e", "n", "a", "m", "e", "=",
                "i", ".", "p">> -> <<"i", ".", "p">>
      [] cd = <<"f", "i", "l", "e", "n", "a", "m", "e", "=", "\"", "i", ".", "p",
                "\"", ";", " ", "s", "=", "1">>
            -> <<"i", ".", "p", "\"", ";", " ", "s", "=", "1">>
      [] OTHER -> <<>>

Document1Pdf ==
    <<"d", "o", "c", "u", "m", "e", "n", "t", "_", "1", ".", "p", "d", "f">>

\* C15: DownloadDocument succeeds only on status 200 and returns as file
\* name the text after filename= of Content-Disposition without the quotes
\* around it (nothing when absent); documents download writes to --output
\* if given, else to that file name if there is one, else to
\* document_<id>.pdf, and so never to an empty path.
C15_DownloadPath ==
    /\ Received("DownloadDocument") /\ ret.ok =>
          /\ resps[1].status = 200
          /\ ret.val.filename = NameAsserted(resps[1].disposition)
          /\ ret.val.data = resps[1].body.text
    /\ cmd.name = "download" =>
          \A i \in 1..Len(disk) :
              /\ Len(resps) = 1 /\ resps[1].status = 200
              /\ disk[i].path # <<>>
              /\ disk[i].path =
                    IF cmd.downloadOutput # <<>> THEN cmd.downloadOutput
                    ELSE IF NameAsserted(resps[1].disposition) # <<>>
                         THEN NameAsserted(resps[1].disposition)
                         ELSE Document1Pdf

\* no --output and a header with filename="": written to document_1.pdf
C15_Witness ==
    /\ cmd.name = "download" /\ pc = "done" /\ err = NoErr
    /\ cmd.downloadOutput = <<>>
    /\ resps[1].disposition = <<"a", ";", " ", "f", "i", "l", "e", "n", "a", "m", "e",
                                "=", "\"", "\"">>
    /\ Len(disk) = 1 /\ disk[1].path = Document1Pdf

\* C16: GetTask sends one request, the task list filtered by the task ID,
\* and never a second one; of the list that comes back it returns the first
\* element, and fails with a not-found error when the list is empty.
C16_FirstTask ==
    cmd.name = "api" /\ cmd.api.op = "GetTask" =>
        /\ Len(reqs) <= 1
        /\ \A i \in 1..Len(reqs) :
              /\ reqs[i].method = "GET" /\ reqs[i].res = "tasks"
              /\ reqs[i].query.task_id = cmd.api.name
        /\ ApiDone => Len(reqs) = 1
        /\ Received("GetTask") /\ resps[1].status = 200 /\ resps[1].body.k = "array" =>
              IF resps[1].body.results = <<>>
              THEN ~ret.ok /\ ret.err.msg = "not found"
              ELSE ret.ok /\ ret.val = resps[1].body.results[1]

\* two tasks came back for the ID: the first was returned
C16_Witness ==
    /\ Received("GetTask") /\ resps[1].status = 200
    /\ Len(resps[1].body.results) = 2
    /\ ret.ok /\ ret.val.file = "f0"

IsDocumentList(r) ==
    r.method = "GET" /\ r.res = "documents" /\ r.id = 0 /\ r.sub = ""

\* how many parameters of the request have the key
ParamCount(r, key) ==
    Cardinality({k \in 1..Len(r.query.filters) : r.query.filters[k].key = key})

\* one parameter for a filter that is given, none for one that is not
SentIffGiven(r, key, given) == ParamCount(r, key) = (IF given THEN 1 ELSE 0)

\* C17: documents list puts a filter into the query string only when the
\* filter is given: no parameter is ever sent with an empty value, and an
\* empty string, an empty tag list, a limit or a page that is not positive
\* give no parameter at all.
C17_NoEmptyParams ==
    cmd.name = "list" =>
        \A i \in 1..Len(reqs) :
            IsDocumentList(reqs[i]) =>
                /\ \A k \in 1..Len(reqs[i].query.filters) :
                      reqs[i].query.filters[k].val # <<>>
                /\ SentIffGiven(reqs[i], "query", cmd.listQuery # <<>>)
                /\ SentIffGiven(reqs[i], "correspondent__name__iexact",
                                cmd.listCorrespondent # <<>>)
                /\ SentIffGiven(reqs[i], "document_type__name__iexact",
                                cmd.listDocType # <<>>)
                /\ SentIffGiven(reqs[i], "created__date__gt", cmd.listCreatedAfter # <<>>)
                /\ SentIffGiven(reqs[i], "created__date__lt", cmd.listCreatedBefore # <<>>)
                /\ SentIffGiven(reqs[i], "page_size", cmd.listLimit > 0)
                /\ SentIffGiven(reqs[i], "page", cmd.listPage > 0)
                /\ cmd.listTags = <<>> => ParamCount(reqs[i], "tags__name__iexact") = 0

\* the fields documents edit was given: a title or token that is not
\* empty, an archive serial number above zero, a tag to add or to remove
FieldsSupplied ==
    (IF cmd.editTitle # "" THEN {"title"} ELSE {})
    \cup (IF cmd.editCorrespondent # <<>> THEN {"correspondent"} ELSE {})
    \cup (IF cmd.editDocType # <<>> THEN {"document_type"} ELSE {})
    \cup (IF cmd.editASN > 0 THEN {"archive_serial_number"} ELSE {})
    \cup (IF cmd.editAddTags # <<>> \/ cmd.editRemoveTags # <<>> THEN {"tags"} ELSE {})

ServerDerived == {"id", "slug", "document_count", "created", "modified", "added"}

DocumentPatches ==
    {i \in 1..Len(reqs) : reqs[i].method = "PATCH" /\ reqs[i].res = "documents"}

\* C18: the PATCH body of documents edit has exactly the fields that were
\* supplied (tags only when a tag is added or removed) and never a
\* server-derived one; what was not supplied stays on the server as it was.
C18_PartialUpdate ==
    cmd.name = "edit" =>
        /\ \A i \in DocumentPatches :
              /\ DOMAIN reqs[i].body.json = FieldsSupplied
              /\ DOMAIN reqs[i].body.json \cap ServerDerived = {}
        /\ \A d \in DOMAIN server.meta :
              /\ \A f \in DOMAIN DocMeta \ FieldsSupplied : server.meta[d][f] = DocMeta[f]
              /\ "tags" \notin FieldsSupplied /\ doc # NoDoc /\ d = doc.id =>
                    server.docs[d] = Range(doc.tags)

\* only a title was given: the PATCH carried the title alone and the
\* service changed nothing else
C18_Witness ==
    /\ cmd.name = "edit" /\ pc = "done" /\ err = NoErr
    /\ FieldsSupplied = {"title"}
    /\ DocumentPatches = {2}
    /\ server.meta[1].title = JString("T")
    /\ server.meta[1].archive_serial_number = DocMeta.archive_serial_number
    /\ server.docs[1] = {1, 2}

TaskRequests == {i \in 1..Len(reqs) : reqs[i].res = "tasks"}

UploadRequests ==
    {i \in 1..Len(reqs) : reqs[i].method = "POST" /\ reqs[i].sub = "post_document"}

\* C19: documents upload hands each file over and goes on: it sends no
\* request for the state of a task, before or after a task ID came back,
\* and its last request is the upload of a file; only tasks status (and
\* GetTask called by itself) asks for a task.
C19_NoPolling ==
    /\ TaskRequests # {} =>
          \/ cmd.name = "tasks status"
          \/ cmd.name = "api" /\ cmd.api.op = "GetTask"
    /\ cmd.name = "upload" =>
          /\ TaskRequests = {}
          /\ pc = "done" /\ UploadRequests # {} => Len(reqs) \in UploadRequests
          /\ Cardinality(UploadRequests) <= Len(cmd.args)

\* two files were uploaded and their task IDs printed; nothing was asked
\* about the tasks, which the service holds
C19_Witness ==
    /\ cmd.name = "upload" /\ pc = "done" /\ err = NoErr
    /\ Len(cmd.args) = 2 /\ Len(out) = 2 /\ Len(server.tasks) = 2
    /\ Cardinality(UploadRequests) = 2 /\ TaskRequests = {}

\* the operations that read the response body, and those that decode it
ReadsBody == {"List", "ListDocuments", "FindByName", "Get", "Create", "Update",
              "UploadDocument", "DownloadDocument", "GetTask"}
DecodesBody == ReadsBody \ {"UploadDocument", "DownloadDocument"}

\* something went wrong in the exchange: no answer, a status outside 2xx, a
\* body whose read broke off, a body that does not decode
ExchangeFailed ==
    /\ Len(resps) = 1
    /\ \/ resps[1].failed
       \/ ~Is2xx(resps[1].status)
       \/ cmd.api.op \in ReadsBody /\ resps[1].body.k = "broken"
       \/ cmd.api.op \in DecodesBody /\ resps[1].body.k = "error"

\* C20: no operation of the Client turns a failure into a success: when
\* the request could not be built or sent, the status is not a success, or
\* the body could not be read or decoded, the operation returns an error.
C20_NoSwallowedFailure ==
    ApiDone =>
        /\ ExchangeFailed => ~ret.ok
        /\ reqs = <<>> => ~ret.ok

\* the tag IDs of PATCH request i as they are written in the body
TagArray(i) == reqs[i].body.json["tags"].a

NoDuplicate(a) == \A j, k \in 1..Len(a) : a[j] = a[k] => j = k

\* C21: the tag IDs sent in the PATCH of documents edit never hold the same
\* ID twice, whatever the document's tags and the add and remove tokens
\* are: a tag added that the document has, a token given twice, an ID and a
\* name of the same tag.
C21_NoDuplicateTags ==
    cmd.name = "edit" =>
        \A i \in TagPatches :
            reqs[i].body.json["tags"].t = "array" => NoDuplicate(TagArray(i))

\* tag 2 was on the document and was added by its ID and by its name: the
\* PATCH carried it once
C21_Witness ==
    /\ cmd.name = "edit" /\ pc = "done" /\ err = NoErr
    /\ cmd.editAddTags = <<<<"2">>, <<"A">>>> /\ cmd.editRemoveTags = <<>>
    /\ doc.tags = <<2>>
    /\ Len(hist) = 2 /\ hist[1].id = 2 /\ hist[2].id = 2
    /\ \E i \in TagPatches : TagArray(i) = <<2>>

\* the commands that talk to the service
ServiceCmds == {"edit", "upload", "delete", "list", "download", "tasks status"}

\* the string a key of the config document holds
Written(v) == IF v.kind \in {"plain", "quoted"} THEN v.text ELSE <<>>

\* the file is a YAML document
IsDocument == config.exists /\ config.wellformed

\* the file is there, can be read, and is a document with strings for values
Loads ==
    /\ IsDocument /\ config.readable
    /\ config.url.kind # "seq" /\ config.token.kind # "seq"

URLWanted(fileURL) ==
    IF cmd.urlFlag # <<>> THEN cmd.urlFlag
    ELSE IF cmd.envURL # <<>> THEN cmd.envURL ELSE fileURL

TokenWanted(fileToken) == IF cmd.envToken # <<>> THEN cmd.envToken ELSE fileToken

\* base is the URL, but for a slash at its end
SameServer(base, url) == base = url \/ base \o <<"/">> = url

NoCredentials == {"no server URL configured", "no API token configured"}

\* with a URL and a token the command sends every request to that URL with
\* that token and does not complain about either; without one of them it
\* fails at its first step and sends nothing
UsesCredentials(url, token) ==
    IF url # <<>> /\ token # <<>>
    THEN /\ \A i \in 1..Len(reqs) : SameServer(reqs[i].base, url) /\ reqs[i].auth = token
         /\ err.msg \notin NoCredentials
    ELSE /\ reqs = <<>> /\ call.op = "none"
         /\ pc \in {StartLabel(cmd.name), "done"}
         /\ pc = "done" => err.msg = (IF url = <<>> THEN "no server URL configured"
                                      ELSE "no API token configured")

\* C22 as stated: the URL is --url, else PAPERLESS_URL, else the url of the
\* config file; the token is PAPERLESS_TOKEN, else the token of the config
\* file; a command without URL or token fails before any request.
C22_FileAsWritten ==
    cmd.name \in ServiceCmds =>
        UsesCredentials(URLWanted(IF IsDocument THEN Written(config.url) ELSE <<>>),
                        TokenWanted(IF IsDocument THEN Written(config.token) ELSE <<>>))

\* C22: the URL is --url if not empty, else PAPERLESS_URL if not empty, else
\* the url of the config file; the token is PAPERLESS_TOKEN if not empty,
\* else the token of the config file; a config file that cannot be loaded
\* (unreadable, no YAML, a value that is no string) counts as holding
\* neither; a command left without URL or without token fails before any
\* HTTP request is sent.
C22_Precedence ==
    cmd.name \in ServiceCmds =>
        UsesCredentials(URLWanted(IF Loads THEN Written(config.url) ELSE <<>>),
                        TokenWanted(IF Loads THEN Written(config.token) ELSE <<>>))

\* no flag and no PAPERLESS_URL: the request went to the url of the file,
\* with the token of the environment rather than the file's
C22_Witness ==
    /\ cmd.name = "list" /\ pc = "done" /\ err = NoErr
    /\ cmd.urlFlag = <<>> /\ cmd.envURL = <<>> /\ cmd.envToken = <<"t">>
    /\ config.token = Plain(<<"s">>)
    /\ Len(reqs) = 1 /\ reqs[1].base = <<"c">> /\ reqs[1].auth = <<"t">>

\* the tags the command arrives at from the tags it read and the tokens it
\* resolved: what it read, with the IDs added, without the IDs removed
ReconciledFromRead ==
    (Range(doc.tags) \cup {hist[j].id : j \in {k \in 1..Len(hist) :
                                                hist[k].phase = "add" /\ hist[k].ok}})
        \ {hist[j].id : j \in {k \in 1..Len(hist) : hist[k].phase = "remove" /\ hist[k].ok}}

\* what would make a request conditional on the state it was computed from
Conditional == {"If-Match", "If-None-Match", "If-Unmodified-Since", "If-Modified-Since"}

PayloadFields == {"title", "correspondent", "document_type", "archive_serial_number", "tags"}

\* the changes of another client that came after answer number n
ForeignAfter(n) == {j \in 1..Len(server.foreign) : server.foreign[j].at >= n}

\* C23: the tags in the PATCH of documents edit are computed from the tags
\* GetDocument returned earlier in the invocation, whatever the service
\* holds by then; the PATCH carries no version or condition; once it is
\* accepted, and until someone else writes again, the service holds the
\* tags sent, so that a change made by another client between the GET and
\* the PATCH is gone.
C23_StaleWrite ==
    cmd.name = "edit" =>
        /\ \A i \in TagPatches :
              /\ TagsSent(i) = ReconciledFromRead
              /\ reqs[i].headers \cap Conditional = {}
              /\ DOMAIN reqs[i].body.json \subseteq PayloadFields
              /\ Len(resps) >= i /\ ~resps[i].failed /\ resps[i].status = 200
                   /\ ForeignAfter(i) = {}
                 => server.docs[reqs[i].id] = TagsSent(i)
        /\ \A i \in 1..Len(reqs) : reqs[i].method = "GET" /\ reqs[i].res = "documents" => i = 1

\* tag 4 was to be added to a document read with tag 2; meanwhile another
\* client gave the document tag 3 alone; the PATCH sent 2 and 4, and the
\* service holds 2 and 4: tag 3 is gone
C23_Witness ==
    /\ cmd.name = "edit" /\ pc = "done" /\ err = NoErr
    /\ cmd.editAddTags = <<<<"4">>>> /\ doc.tags = <<2>>
    /\ Len(server.foreign) = 1 /\ server.foreign[1].at = 1
    /\ server.foreign[1].tags = {3}
    /\ TagPatches = {2} /\ TagsSent(2) = {2, 4}
    /\ server.docs[1] = {2, 4}

\* the add-tag, correspondent and document-type names that did not resolve
Unresolved ==
    {j \in 1..Len(hist) :
        hist[j].phase \in {"add", "correspondent", "document_type"} /\ ~hist[j].ok}

NotFoundErrors == {"tag not found", "correspondent not found", "document type not found"}

\* C24: when an add-tag, correspondent or document-type token of documents
\* edit is a name that does not resolve, the command has ended with an
\* error, no PATCH was sent, and the document is on the service as it was
\* read, whatever else was to be changed.
C24_AllOrNothing ==
    cmd.name = "edit" /\ Unresolved # {} =>
        /\ pc = "done" /\ err.msg \in NotFoundErrors
        /\ \A j \in Unresolved : hist[j].token \notin DecimalTokens /\ j = Len(hist)
        /\ \A i \in 1..Len(reqs) : reqs[i].method = "GET"
        /\ out = <<>>
        /\ \A d \in DOMAIN server.meta : server.meta[d] = DocMeta
        /\ server.docs[doc.id] = Range(doc.tags)

\* a title and a correspondent no one has: no PATCH, the old title stays
C24_Witness ==
    /\ cmd.name = "edit" /\ pc = "done"
    /\ cmd.editTitle = "T" /\ cmd.editCorrespondent = <<"x">>
    /\ err.msg = "correspondent not found"
    /\ Len(reqs) = 2 /\ IsListRequest(reqs[2]) /\ resps[2].status = 200
    /\ server.meta[1].title = JString("old")

\* an ID below ten as it is written in a form field
IDText(n) == <<Digits[n + 1]>>

\* the entries of hist of one kind, in order
HistOf(phase) == SelectSeq(hist, LAMBDA h : h.phase = phase)

\* the form fields that follow from what was resolved
FieldsResolved ==
    [correspondent |-> IF HistOf("correspondent") = <<>> THEN <<>>
                       ELSE IDText(HistOf("correspondent")[1].id),
     document_type |-> IF HistOf("document_type") = <<>> THEN <<>>
                       ELSE IDText(HistOf("document_type")[1].id),
     tags |-> [j \in 1..Len(HistOf("tag")) |-> IDText(HistOf("tag")[j].id)]]

\* C25: documents upload resolves the correspondent, the document type and
\* every tag token once each, all before the first upload request; when a
\* resolution fails the command has failed and no upload request was sent;
\* otherwise every file of the batch goes out with the same resolved IDs.
C25_ResolveOnce ==
    cmd.name = "upload" =>
        /\ \A i \in UploadRequests :
              \A j \in 1..Len(reqs) : IsListRequest(reqs[j]) => j < i
        /\ (\E j \in 1..Len(hist) : ~hist[j].ok) =>
              /\ UploadRequests = {}
              /\ pc = "done" /\ err.msg \in NotFoundErrors
        /\ UploadRequests # {} =>
              /\ [j \in 1..Len(hist) |-> hist[j].token]
                    = SelectSeq(TokensGiven, LAMBDA tok : tok # <<>>)
              /\ \A i \in UploadRequests :
                    /\ reqs[i].body.fields.correspondent = FieldsResolved.correspondent
                    /\ reqs[i].body.fields.document_type = FieldsResolved.document_type
                    /\ reqs[i].body.fields.tags = FieldsResolved.tags

\* two files, a correspondent, a type and two tags given by name: four List
\* requests, then two uploads with the same IDs
C25_Witness ==
    /\ cmd.name = "upload" /\ pc = "done" /\ err = NoErr
    /\ cmd.uploadCorrespondent = <<"a">> /\ cmd.uploadDocType = <<"B">>
    /\ cmd.uploadTags = <<<<"A">>, <<"2">>>>
    /\ UploadRequests = {4, 5}
    /\ reqs[4].body.fields.tags = <<<<"3">>, <<"2">>>>
    /\ reqs[5].body.fields.tags = <<<<"3">>, <<"2">>>>
    /\ reqs[5].body.fields.correspondent = <<"5">>
    /\ reqs[4].body.file # reqs[5].body.file

\* the arguments of the invocation that are no integers
NotIntegers == {i \in 1..Len(cmd.args) : cmd.args[i] \notin DecimalTokens}

\* the documents the service of documents delete starts with
DocumentsAtStart == {1, 2, 3}

\* C26: documents delete parses every argument before it sends a DELETE:
\* when an argument, at whatever position, is no integer, the command fails
\* with no request sent, no question asked and no document deleted.
C26_ParseAllFirst ==
    cmd.name = "delete" /\ NotIntegers # {} =>
        /\ reqs = <<>> /\ call.op = "none"
        /\ out = <<>>
        /\ DOMAIN server.docs = DocumentsAtStart
        /\ pc \in {"delete", "done"}
        /\ pc = "done" => err.msg = "invalid document ID"

\* two documents that exist, then an argument that is no number: nothing
\* was deleted
C26_Witness ==
    /\ cmd.name = "delete" /\ pc = "done"
    /\ cmd.args = <<<<"1">>, <<"2">>, <<"x">>>> /\ cmd.deleteForce
    /\ err.msg = "invalid document ID"
    /\ reqs = <<>> /\ DOMAIN server.docs = DocumentsAtStart

-----------------------------------------------------------------------------
(* C27: the confirmation of a delete *)

DeleteCommands == {"delete", "kind delete"}

\* --force of the delete command that runs
Forced == IF cmd.name = "delete" THEN cmd.deleteForce ELSE cmd.force

YesWords == {<<"y">>, <<"Y">>, <<"y", "e", "s">>, <<"Y", "e", "s">>}

\* a DELETE was asked of the Client or sent
DeleteSent ==
    \/ call.op = "Delete"
    \/ \E i \in 1..Len(reqs) : reqs[i].method = "DELETE"

\* the command came as far as the confirmation: the credentials were found
\* and every ID is a number
Asked ==
    /\ getClient.ok
    /\ IF cmd.name = "delete" THEN NotIntegers = {} ELSE Atoi(cmd.args[1]).ok

\* C27 as stated: a delete command without --force sends a DELETE only when
\* the answer is y, Y, yes or Yes; on any other answer, and always in quiet
\* mode, it sends no DELETE and ends without error.
C27_AnswerIsYes ==
    cmd.name \in DeleteCommands /\ ~Forced =>
        /\ DeleteSent => ~cmd.quietMode /\ cmd.answer \in YesWords
        /\ pc = "done" /\ Asked /\ (cmd.quietMode \/ cmd.answer \notin YesWords) =>
               ~DeleteSent /\ err = NoErr

\* C27: a delete command without --force sends a DELETE only when it is not
\* quiet and the first word of the answer line is y, Y, yes or Yes; when the
\* first word is anything else, and always in quiet mode, a command whose
\* credentials and IDs were accepted sends no DELETE, deletes nothing, prints
\* "Cancelled" and ends without error.
C27_Confirmation ==
    cmd.name \in DeleteCommands /\ ~Forced =>
        /\ DeleteSent => ~cmd.quietMode /\ Scanln(cmd.answer) \in YesWords
        /\ pc = "done" /\ Asked /\ (cmd.quietMode \/ Scanln(cmd.answer) \notin YesWords) =>
               /\ ~DeleteSent /\ reqs = <<>>
               /\ err = NoErr
               /\ out = <<Line("Cancelled", 0, <<>>)>>

\* the answer "y n": the word read is y, tag 2 was deleted
C27_Witness ==
    /\ cmd.name = "kind delete" /\ cmd.kind = "tags" /\ ~cmd.force
    /\ cmd.answer = <<"y", " ", "n">>
    /\ pc = "done" /\ err = NoErr
    /\ Len(reqs) = 1 /\ reqs[1].method = "DELETE" /\ resps[1].status = 204

\* quiet without --force, with a y on stdin: refused, nothing sent
C27_WitnessQuiet ==
    /\ cmd.name = "delete" /\ ~cmd.deleteForce /\ cmd.quietMode
    /\ cmd.answer = <<"y">>
    /\ pc = "done" /\ err = NoErr /\ reqs = <<>>


-----------------------------------------------------------------------------
(* C28: the payload when no tag is left *)

\* the add-tag and remove-tag tokens of documents edit left no tag
NoTagLeft ==
    /\ cmd.name = "edit"
    /\ cmd.editAddTags # <<>> \/ cmd.editRemoveTags # <<>>
    /\ "tags" \in DOMAIN updates /\ tags = {}

\* C28: when the reconciliation of documents edit leaves the document with
\* no tags, the PATCH payload holds the member tags and its value is the
\* empty list, not null and not absent.
C28_EmptyList ==
    NoTagLeft =>
        \A i \in 1..Len(reqs) :
            reqs[i].method = "PATCH" =>
                /\ "tags" \in DOMAIN reqs[i].body.json
                /\ reqs[i].body.json["tags"] = JArray(<<>>)

\* what is sent instead: the member is there and its value is null
C28_NullSent ==
    NoTagLeft =>
        \A i \in 1..Len(reqs) :
            reqs[i].method = "PATCH" =>
                /\ "tags" \in DOMAIN reqs[i].body.json
                /\ reqs[i].body.json["tags"] = JNull

\* the only tag of the document was removed and the PATCH was sent
C28_Reached ==
    /\ NoTagLeft /\ doc.tags = <<2>> /\ cmd.editAddTags = <<>>
    /\ \E i \in 1..Len(reqs) : reqs[i].method = "PATCH"

-----------------------------------------------------------------------------
(* C29: an edit that changes nothing *)

\* no flag of the edit command gives a change
NoChange ==
    \/ /\ cmd.name = "edit"
       /\ cmd.editTitle = "" /\ cmd.editCorrespondent = <<>> /\ cmd.editDocType = <<>>
       /\ cmd.editAddTags = <<>> /\ cmd.editRemoveTags = <<>>
       /\ cmd.editASN <= 0
    \/ /\ cmd.name = "kind edit"
       /\ cmd.newName = "" /\ cmd.tagColor = ""

\* a PATCH was asked of the Client or sent
PatchSent ==
    \/ call.op = "Update"
    \/ \E i \in 1..Len(reqs) : reqs[i].method = "PATCH"

\* what the handler does before it looks at the changes went well: the
\* credentials were found, the ID is a number and, for documents edit, the
\* document was read
ChangesLookedAt ==
    /\ getClient.ok
    /\ Atoi(cmd.args[1]).ok
    /\ cmd.name = "edit" => doc # NoDoc

\* C29 as stated: an edit with no effective change fails with "no changes
\* specified" and sends no PATCH.
C29_NoChangesAlways ==
    NoChange =>
        /\ ~PatchSent
        /\ pc = "done" => err.msg = "no changes specified"

\* C29: an edit with no effective change (documents edit with no title,
\* correspondent, type, add-tag or remove-tag and --asn not above 0; tags,
\* correspondents and document-types edit with no field) sends no PATCH and
\* ends with an error; the error is "no changes specified" when the
\* credentials were found, the ID is a number and, for documents edit, the
\* document was read, and the error of that earlier step otherwise.
\* documents edit sends the one GET of the document before, the other
\* edits send nothing.
C29_NoChanges ==
    NoChange =>
        /\ ~PatchSent
        /\ \A i \in 1..Len(reqs) : i = 1 /\ cmd.name = "edit" /\ reqs[i].method = "GET"
        /\ pc = "done" =>
               /\ err # NoErr
               /\ err.msg = "no changes specified" <=> ChangesLookedAt

\* documents edit 1 --asn -1: the document was read, nothing was sent after
C29_Witness ==
    /\ cmd.name = "edit" /\ NoChange /\ cmd.editASN = 0 - 1
    /\ pc = "done" /\ err.msg = "no changes specified"
    /\ Len(reqs) = 1 /\ reqs[1].method = "GET" /\ resps[1].status = 200

\* tags edit 2 with neither --name nor --color: nothing was sent
C29_WitnessKind ==
    /\ cmd.name = "kind edit" /\ cmd.kind = "tags" /\ NoChange
    /\ pc = "done" /\ err.msg = "no changes specified" /\ reqs = <<>>

-----------------------------------------------------------------------------
(* C30: config set-url and set-token change one field *)

\* the step is an invocation of the operation
SetStep(op) == cmd.name = "config" /\ idx' = idx + 1 /\ ThisSet.op = op

\* the file can be read and is a YAML document, or is not there
Legible == config.exists => config.readable /\ config.wellformed

\* C30: saving configuration changes only the field being set: at every
\* invocation of a sequence of set-url and set-token, set-url leaves the
\* token the file holds as it was and set-token leaves the URL the file
\* holds as it was, whatever the file held before.
C30_OnlyTheField ==
    [][/\ SetStep("set-url") /\ Legible => Written(config'.token) = Written(config.token)
       /\ SetStep("set-token") /\ Legible => Written(config'.url) = Written(config.url)]_vars

\* what holds: the other field is kept when the file loads, and is empty
\* after a save when it does not
C30_KeptWhenLoaded ==
    [][/\ SetStep("set-url") =>
            \/ config' = config
            \/ Written(config'.token) = (IF Load(config).ok THEN Written(config.token) ELSE <<>>)
       /\ SetStep("set-token") =>
            \/ config' = config
            \/ Written(config'.url) = (IF Load(config).ok THEN Written(config.url) ELSE <<>>)]_vars

\* the file held a sequence for url and the token s; set-url was run and
\* the token is gone
C30_Reached ==
    /\ cmd.name = "config" /\ cmd.sets[1].op = "set-url" /\ idx = 1
    /\ err = NoErr /\ Written(config.url) = cmd.sets[1].arg
    /\ config.token = Quoted(<<>>)

====
